---------------------------- MODULE Spec2Model ----------------------------
(***************************************************************************)
(* Model of the decision-to-ledger pipeline of the ATR trading system:     *)
(*   core/portfolio.py      Portfolio      (the ledger)                    *)
(*   core/order_manager.py  OrderManager   (order store and executor)      *)
(*   core/risk_manager.py   RiskManager    (the risk gate)                 *)
(*   core/trading_engine.py TradingEngine  (execute_trade)                 *)
(*   main.py                ATRSystem      (asyncio tasks, web thread)     *)
(*                                                                         *)
(* Money is counted in mills (1/1000 dollar), so that the 0.1% slippage,   *)
(* the 1% cash buffer and the per-share fees are exact integers.  Python   *)
(* float division (the average cost) is modelled as integer division.      *)
(***************************************************************************)
EXTENDS Integers, Sequences, FiniteSets, TLC

VARIABLES
    initial_capital,   \* Portfolio.initial_capital
    cash_balance,      \* Portfolio.cash_balance
    positions,         \* Portfolio.positions: symbol -> Position, held symbols only
    trade_history,     \* Portfolio.trade_history: sequence of TradeRecord
    orders,            \* OrderManager.orders: order_id -> Order, ids 1..Len(orders)
    fills,             \* OrderManager.fills: sequence of Fill
    market_data_cache, \* OrderManager.market_data_cache: symbol -> cached price
    placing,           \* id of the order place_order created and has not submitted yet, or 0
    quote_down,        \* the quote lookup of _get_current_price fails (its except branch)
    volatility_data,   \* RiskManager.volatility_data: symbol -> volatility, in percent
    correlation_matrix,\* RiskManager.correlation_matrix: <<s1, s2>> -> correlation, in percent
    tasks,             \* the asyncio task of each model in the current cycle
    running,           \* the task the event loop is running, or "none"
    arrival,           \* the tasks of the cycle in the order they called execute_trade
    cycle_start,       \* the ledger when the current cycle started
    cycle_quotes,      \* the cached quotes when the current cycle started
    cycle,             \* number of trading cycles started
    writer,            \* the update_position call in progress on the engine thread
    reader,            \* the get_status call in progress on the web-server thread
    boundary,          \* the (cash, positions value, total value) of the ledger at whole fills
    call,              \* the last call made and its outcome
    in_c1_domain       \* every ledger call so far had quantity >= 1 and price > 0

pfVars == <<initial_capital, cash_balance, positions, trade_history>>
omVars == <<orders, fills, market_data_cache, placing, quote_down>>
rmVars == <<volatility_data, correlation_matrix>>
engVars == <<tasks, running, arrival, cycle_start, cycle_quotes, cycle>>
webVars == <<writer, reader, boundary>>
vars == <<initial_capital, cash_balance, positions, trade_history,
          orders, fills, market_data_cache, placing, quote_down,
          volatility_data, correlation_matrix,
          tasks, running, arrival, cycle_start, cycle_quotes, cycle,
          writer, reader, boundary, call, in_c1_domain>>

----------------------------------------------------------------------------
(* Bounds of the model *)

\* longest trade history explored
MaxTrades == 3
\* largest quantity of a direct ledger call
MaxQty == 2
\* largest number of orders placed
MaxOrders == 2

Symbols == {"AAPL", "MSFT"}

\* initial capitals of the ledger-only specification, in mills ($0, $10, $12)
LedgerCapitals == {0, 10000, 12000}
\* prices of direct ledger calls, in mills ($0.50, $9)
LedgerPrices == {500, 9000}

\* Optional[float] = None
NoPrice == -1

Max(a, b) == IF a >= b THEN a ELSE b
Min(a, b) == IF a <= b THEN a ELSE b

----------------------------------------------------------------------------
(* core/portfolio.py *)

\* a ledger value: the three mutable fields of Portfolio
Ledger(cash, pos, hist) ==
    [cash_balance |-> cash, positions |-> pos, trade_history |-> hist]

\* Position(symbol, quantity, avg_cost, current_price)
Position(quantity, avg_cost, current_price) ==
    [quantity |-> quantity, avg_cost |-> avg_cost, current_price |-> current_price]

\* TradeRecord(...), pnl defaults to 0.0
TradeRecord(symbol, action, quantity, price, commission) ==
    [symbol |-> symbol, action |-> action, quantity |-> quantity,
     price |-> price, commission |-> commission, pnl |-> 0]

\* Portfolio._calculate_commission: max(quantity * 0.01, 1.0) dollars
Portfolio_calculate_commission(quantity, price) ==
    Max(quantity * 10, 1000)

\* _buy_stock without its funds test
Portfolio_buy_raises_Never(cash, total_cost) ==
    FALSE

\* the funds test of _buy_stock: True when the buy raises ValueError
Portfolio_buy_raises(cash, total_cost) ==
    total_cost > cash

\* _buy_stock taking the last price as the average cost
Portfolio_buy_positions_LastPrice(pos, symbol, quantity, price) ==
    IF symbol \in DOMAIN pos
    THEN [pos EXCEPT ![symbol].quantity = @ + quantity, ![symbol].avg_cost = price]
    ELSE [s \in DOMAIN pos \cup {symbol} |->
            IF s = symbol THEN Position(quantity, price, price) ELSE pos[s]]

\* positions after the position update of _buy_stock (lines 113-130)
Portfolio_buy_positions(pos, symbol, quantity, price) ==
    IF symbol \in DOMAIN pos
    THEN LET total_quantity == pos[symbol].quantity + quantity
             total_cost_basis == pos[symbol].quantity * pos[symbol].avg_cost
                                 + quantity * price
         IN \* total_cost_basis / 0 raises ZeroDivisionError: see Portfolio_buy_stock
            [pos EXCEPT ![symbol].quantity = total_quantity,
                        ![symbol].avg_cost = total_cost_basis \div total_quantity]
    ELSE [s \in DOMAIN pos \cup {symbol} |->
            IF s = symbol THEN Position(quantity, price, price) ELSE pos[s]]

\* Portfolio._buy_stock: [raised, ledger].  The cash debit comes before the
\* position update; a ZeroDivisionError (a held position of quantity 0
\* bought with quantity 0) is raised after the debit.
Portfolio_buy_stock(pf, symbol, quantity, price, commission) ==
    LET total_cost == quantity * price + commission IN
    IF Portfolio_buy_raises(pf.cash_balance, total_cost)
    THEN [raised |-> TRUE, pf |-> pf]
    ELSE IF symbol \in DOMAIN pf.positions
            /\ pf.positions[symbol].quantity + quantity = 0
    THEN [raised |-> TRUE,
          pf |-> [pf EXCEPT !.cash_balance = @ - total_cost]]
    ELSE [raised |-> FALSE,
          pf |-> [pf EXCEPT !.cash_balance = @ - total_cost,
                            !.positions = Portfolio_buy_positions(@, symbol, quantity, price)]]

\* _sell_stock without the deletion of a position that reached 0
Portfolio_sell_positions_NoDelete(pos, symbol, quantity) ==
    [pos EXCEPT ![symbol].quantity = @ - quantity]

\* positions after the position update of _sell_stock (lines 150-155)
Portfolio_sell_positions(pos, symbol, quantity) ==
    IF pos[symbol].quantity - quantity = 0
    THEN [s \in DOMAIN pos \ {symbol} |-> pos[s]]
    ELSE [pos EXCEPT ![symbol].quantity = @ - quantity]

\* lines 157-159 of _sell_stock if the realized P&L were written into the
\* first record of the history
Portfolio_sell_history_First(hist, realized_pnl) ==
    IF Len(hist) > 0
    THEN [hist EXCEPT ![1].pnl = realized_pnl]
    ELSE hist

\* trade history after lines 157-159 of _sell_stock: the realized P&L is
\* written into the last record already in the history
Portfolio_sell_history(hist, realized_pnl) ==
    IF Len(hist) > 0
    THEN [hist EXCEPT ![Len(hist)].pnl = realized_pnl]
    ELSE hist

\* _sell_stock without the test position.quantity < quantity
Portfolio_sell_stock_NoQuantityTest(pf, symbol, quantity, price, commission) ==
    IF symbol \notin DOMAIN pf.positions
    THEN [raised |-> TRUE, pf |-> pf]
    ELSE [raised |-> FALSE,
          pf |-> [cash_balance |-> pf.cash_balance + quantity * price - commission,
                  positions |-> Portfolio_sell_positions(pf.positions, symbol, quantity),
                  trade_history |->
                      Portfolio_sell_history(pf.trade_history,
                          (price - pf.positions[symbol].avg_cost) * quantity - commission)]]

\* Portfolio._sell_stock: [raised, ledger]
Portfolio_sell_stock(pf, symbol, quantity, price, commission) ==
    IF symbol \notin DOMAIN pf.positions
    THEN [raised |-> TRUE, pf |-> pf]
    ELSE IF pf.positions[symbol].quantity < quantity
    THEN [raised |-> TRUE, pf |-> pf]
    ELSE LET realized_pnl == (price - pf.positions[symbol].avg_cost) * quantity
                             - commission
             proceeds == quantity * price - commission
         IN [raised |-> FALSE,
             pf |-> [cash_balance |-> pf.cash_balance + proceeds,
                     positions |-> Portfolio_sell_positions(pf.positions, symbol, quantity),
                     trade_history |-> Portfolio_sell_history(pf.trade_history, realized_pnl)]]

\* Portfolio.update_position: [raised, ledger].  The trade record is appended
\* after _buy_stock/_sell_stock returned; an exception skips the append.
\* With price None (NoPrice) a buy or sell raises before it changes anything
\* (TypeError on quantity * price or price - avg_cost, or the ValueError of a
\* missing position), and any other action raises in the log line that
\* formats the price, after the record was appended.
Portfolio_update_position(pf, symbol, action, quantity, price) ==
    LET commission == Portfolio_calculate_commission(quantity, price)
        r == IF action \in {"buy", "sell"} /\ price = NoPrice
             THEN [raised |-> TRUE, pf |-> pf]
             ELSE IF action = "buy"
             THEN Portfolio_buy_stock(pf, symbol, quantity, price, commission)
             ELSE IF action = "sell"
             THEN Portfolio_sell_stock(pf, symbol, quantity, price, commission)
             ELSE [raised |-> FALSE, pf |-> pf]
    IN IF r.raised
       THEN r
       ELSE [raised |-> (price = NoPrice),
             pf |-> [r.pf EXCEPT !.trade_history =
                        Append(@, TradeRecord(symbol, action, quantity, price, commission))]]

----------------------------------------------------------------------------
(* core/order_manager.py *)

\* the quotes _get_current_price can draw for a symbol (base price +-2%), in
\* mills: AAPL $148 or $152, MSFT $300
Quotes(symbol) == IF symbol = "AAPL" THEN {148000, 152000} ELSE {300000}

\* the limit prices of the decisions explored, in mills: $150
LimitPrices == {150000}

\* TradingDecision(symbol, action, quantity, price)
Decision(symbol, action, quantity, price) ==
    [symbol |-> symbol, action |-> action, quantity |-> quantity, price |-> price]

\* TradeResult(success, order_id, executed_price, executed_quantity, commission)
TradeResult(success, order_id, executed_price, executed_quantity, commission) ==
    [success |-> success, order_id |-> order_id, executed_price |-> executed_price,
     executed_quantity |-> executed_quantity, commission |-> commission]

FailedResult == TradeResult(FALSE, 0, NoPrice, 0, 0)

\* Fill(order_id, symbol, quantity, price, commission)
Fill(order_id, symbol, quantity, price, commission) ==
    [order_id |-> order_id, symbol |-> symbol, quantity |-> quantity,
     price |-> price, commission |-> commission]

\* cancel_order without FILLED in its list of statuses
CancelRefused_FilledMissing == {"cancelled", "rejected"}

\* OrderStatus values that cancel_order refuses to change
CancelRefused == {"filled", "cancelled", "rejected"}

\* OrderStatus values the design calls terminal
Terminal == {"filled", "cancelled", "rejected", "expired"}

\* round(x, 2) of an amount x given in micro-dollars, in mills (half to even)
RoundToCents(x) ==
    LET r == x % 10000
        down == x - r
    IN IF r > 5000 \/ (r = 5000 /\ (down \div 10000) % 2 = 1)
       THEN (down + 10000) \div 1000
       ELSE down \div 1000

\* OrderManager._calculate_commission: max(1.0, min(q * 0.005, q * price * 0.005))
OrderManager_calculate_commission(quantity, price) ==
    LET per_share_fee == quantity * 5000
        min_fee == 1000000
        max_fee == quantity * price * 5
    IN RoundToCents(Max(min_fee, Min(per_share_fee, max_fee)))

\* _create_order if every order were a limit order
OrderManager_create_order_AlwaysLimit(decision) ==
    [symbol |-> decision.symbol, action |-> decision.action,
     quantity |-> decision.quantity, order_type |-> "limit",
     price |-> decision.price, status |-> "pending",
     filled_quantity |-> 0, avg_fill_price |-> 0, commission |-> 0,
     updated_at |-> 0]

\* OrderManager._create_order: the Order stored under a fresh id, status PENDING.
\* updated_at counts the times the clock was read into the order's updated_at
\* after its creation (each read gives a later time)
OrderManager_create_order(decision) ==
    [symbol |-> decision.symbol, action |-> decision.action,
     quantity |-> decision.quantity,
     order_type |-> IF decision.price = NoPrice THEN "market" ELSE "limit",
     price |-> decision.price, status |-> "pending",
     filled_quantity |-> 0, avg_fill_price |-> 0, commission |-> 0,
     updated_at |-> 0]

\* the outcomes of _get_current_price(symbol): the cached price while the
\* cache entry is younger than 5 minutes, else a fresh random quote which is
\* cached; None from the except branch (lines 298-300) when the lookup fails
OrderManager_get_current_price(cache, symbol, down) ==
    IF cache[symbol] # NoPrice
    THEN {[price |-> cache[symbol], cache |-> cache]}
    ELSE IF down
    THEN {[price |-> NoPrice, cache |-> cache]}
    ELSE {[price |-> q, cache |-> [cache EXCEPT ![symbol] = q]] : q \in Quotes(symbol)}

\* the test of a limit order if only buy orders could fill
LimitCrossed_BuyOnly(order, current_price) ==
    order.action = "buy" /\ current_price <= order.price

\* whether a limit order can fill at the current price (lines 200-203, 416-419)
LimitCrossed(order, current_price) ==
    \/ order.action = "buy" /\ current_price <= order.price
    \/ order.action = "sell" /\ current_price >= order.price

\* the order after a complete fill (lines 220-224, 430-434)
FilledOrder(order, execution_price, commission) ==
    [order EXCEPT !.status = "filled", !.filled_quantity = order.quantity,
                  !.avg_fill_price = execution_price, !.commission = commission,
                  !.updated_at = @ + 1]

\* OrderManager._simulate_order_execution with the price _get_current_price
\* returned: [order, fills (the fills appended), result]
OrderManager_simulate_order_execution(order_id, order, current_price) ==
    IF current_price = NoPrice
    THEN [order |-> [order EXCEPT !.status = "rejected"], fills |-> <<>>,
          result |-> FailedResult]
    ELSE IF order.order_type = "limit" /\ ~LimitCrossed(order, current_price)
    THEN [order |-> [order EXCEPT !.status = "submitted"], fills |-> <<>>,
          result |-> TradeResult(TRUE, order_id, NoPrice, 0, 0)]
    ELSE LET execution_price ==
                 IF order.order_type = "market"
                 THEN IF order.action = "buy"
                      THEN (current_price * 1001) \div 1000
                      ELSE (current_price * 999) \div 1000
                 ELSE order.price
             commission == OrderManager_calculate_commission(order.quantity, execution_price)
         IN [order |-> FilledOrder(order, execution_price, commission),
             fills |-> <<Fill(order_id, order.symbol, order.quantity,
                              execution_price, commission)>>,
             result |-> TradeResult(TRUE, order_id, execution_price,
                                    order.quantity, commission)]

\* process_pending_orders without the status filter of get_orders
OrderManager_pending_orders_Unfiltered(ords) ==
    {i \in 1..Len(ords) : ords[i].status \in {"submitted", "filled"}
                           /\ ords[i].order_type = "limit"}

\* the orders process_pending_orders re-evaluates: get_orders(status=SUBMITTED),
\* newest first, those of type LIMIT
OrderManager_pending_orders(ords) ==
    {i \in 1..Len(ords) : ords[i].status = "submitted" /\ ords[i].order_type = "limit"}

\* the orders shutdown cancels: get_orders(status=PENDING)
OrderManager_shutdown_orders(ords) ==
    {i \in 1..Len(ords) : ords[i].status = "pending"}

\* OrderManager._fill_limit_order on order i of om = [orders, fills]
OrderManager_fill_limit_order(om, i, fill_price) ==
    LET order == om.orders[i]
        commission == OrderManager_calculate_commission(order.quantity, fill_price)
    IN [orders |-> [om.orders EXCEPT ![i] = FilledOrder(order, fill_price, commission)],
        fills |-> Append(om.fills, Fill(i, order.symbol, order.quantity,
                                         fill_price, commission))]

\* the loop of process_pending_orders over the orders todo (newest first),
\* with price[s] the price _get_current_price returns for symbol s
RECURSIVE ProcessPending(_, _, _)
ProcessPending(om, todo, price) ==
    IF todo = {} THEN om
    ELSE LET i == CHOOSE j \in todo : \A k \in todo : k <= j
             order == om.orders[i]
             next == IF price[order.symbol] # NoPrice
                        /\ LimitCrossed(order, price[order.symbol])
                     THEN OrderManager_fill_limit_order(om, i, order.price)
                     ELSE om
         IN ProcessPending(next, todo \ {i}, price)

\* cancel_order if it stamped the order before testing its status
OrderManager_cancel_order_StampFirst(ords, order_id) ==
    IF order_id \notin 1..Len(ords)
    THEN [returned |-> FALSE, orders |-> ords]
    ELSE IF ords[order_id].status \in CancelRefused
    THEN [returned |-> FALSE,
          orders |-> [ords EXCEPT ![order_id].updated_at = @ + 1]]
    ELSE [returned |-> TRUE,
          orders |-> [ords EXCEPT ![order_id].status = "cancelled",
                                  ![order_id].updated_at = @ + 1]]

\* OrderManager.cancel_order: [returned, orders]
OrderManager_cancel_order(ords, order_id) ==
    IF order_id \notin 1..Len(ords)
    THEN [returned |-> FALSE, orders |-> ords]
    ELSE IF ords[order_id].status \in CancelRefused
    THEN [returned |-> FALSE, orders |-> ords]
    ELSE [returned |-> TRUE,
          orders |-> [ords EXCEPT ![order_id].status = "cancelled",
                                  ![order_id].updated_at = @ + 1]]

\* OrderManager.__init__
InitOrderManager ==
    /\ orders = <<>>
    /\ fills = <<>>
    /\ market_data_cache = [s \in Symbols |-> NoPrice]
    /\ placing = 0
    /\ quote_down = FALSE

----------------------------------------------------------------------------
(* core/risk_manager.py *)

\* int(a / b) for b > 0: the quotient truncated towards zero
Trunc(a, b) == IF a >= 0 THEN a \div b ELSE -((-a) \div b)

Abs(a) == IF a >= 0 THEN a ELSE -a

\* RiskCheckResult(approved, reason, adjusted_quantity, risk_score); the risk
\* score is counted in tenths, adjusted_quantity defaults to 0
RiskCheckResult(approved, adjusted_quantity, risk_score, reason) ==
    [approved |-> approved, adjusted_quantity |-> adjusted_quantity,
     risk_score |-> risk_score, reason |-> reason]

\* decision.price or 100.0: the estimate used when the decision has no price
EstimatedPrice(decision) ==
    IF decision.price = NoPrice \/ decision.price = 0 THEN 100000 ELSE decision.price

\* RiskManager._check_cash_availability; total_cost = quantity * price * 1.01
RiskManager_check_cash_availability(decision, pf) ==
    IF decision.action # "buy"
    THEN RiskCheckResult(TRUE, decision.quantity, 0, "")
    ELSE LET estimated_price == EstimatedPrice(decision) IN
         IF decision.quantity * estimated_price * 101 > pf.cash_balance * 100
         THEN LET max_quantity == Trunc(pf.cash_balance * 100, estimated_price * 101) IN
              IF max_quantity = 0
              THEN RiskCheckResult(FALSE, 0, 0, "cash")
              ELSE RiskCheckResult(TRUE, max_quantity, 0, "")
         ELSE RiskCheckResult(TRUE, decision.quantity, 0, "")

\* sum of f[s] over the symbols of a set
RECURSIVE SumOver(_, _)
SumOver(S, f) ==
    IF S = {} THEN 0
    ELSE LET s == CHOOSE x \in S : TRUE IN f[s] + SumOver(S \ {s}, f)

\* sum of the pnl of the records of a trade history
RECURSIVE SumPnl(_)
SumPnl(hist) == IF hist = <<>> THEN 0 ELSE Head(hist).pnl + SumPnl(Tail(hist))

\* positions_value of Portfolio.get_status: sum of quantity * current_price
PositionsValue(pos) ==
    SumOver(DOMAIN pos, [s \in DOMAIN pos |-> pos[s].quantity * pos[s].current_price])

\* unrealized_pnl of Portfolio.get_status
UnrealizedPnl(pos) ==
    SumOver(DOMAIN pos,
            [s \in DOMAIN pos |-> (pos[s].current_price - pos[s].avg_cost) * pos[s].quantity])

\* Portfolio.get_status: the fields read by the risk checks and the web API
Portfolio_get_status(pf) ==
    [cash_balance |-> pf.cash_balance,
     positions_value |-> PositionsValue(pf.positions),
     total_value |-> pf.cash_balance + PositionsValue(pf.positions),
     unrealized_pnl |-> UnrealizedPnl(pf.positions),
     realized_pnl |-> SumPnl(pf.trade_history)]

\* Portfolio.get_status line 177: total_return divides by initial_capital,
\* a ZeroDivisionError when it is 0
Portfolio_get_status_raises(capital) == capital = 0

\* RiskManager._check_position_limits; MAX_POSITION_SIZE = 0.1
RiskManager_check_position_limits(decision, pf) ==
    LET current_quantity == IF decision.symbol \in DOMAIN pf.positions
                            THEN pf.positions[decision.symbol].quantity ELSE 0
        new_quantity == IF decision.action = "buy"
                        THEN current_quantity + decision.quantity
                        ELSE current_quantity - decision.quantity
        total_value == Portfolio_get_status(pf).total_value
        estimated_price == EstimatedPrice(decision)
        position_value == new_quantity * estimated_price
    IN IF total_value > 0 /\ position_value * 10 > total_value
       THEN LET max_quantity == Trunc(total_value, 10 * estimated_price) IN
            RiskCheckResult(TRUE,
                            IF decision.action = "buy"
                            THEN Max(0, max_quantity - current_quantity)
                            ELSE decision.quantity,
                            3, "")
       ELSE RiskCheckResult(TRUE, decision.quantity, 0, "")

\* RiskManager._check_daily_loss_limit; max_daily_loss = 0.05.  Every record of
\* the history carries today's date: the model covers one trading day.
RiskManager_check_daily_loss_limit(pf, capital) ==
    LET today_pnl == SumPnl(pf.trade_history)
        unrealized_pnl == UnrealizedPnl(pf.positions)
        total_daily_pnl == today_pnl + (IF unrealized_pnl < 0 THEN unrealized_pnl ELSE 0)
    IN IF Abs(total_daily_pnl) * 20 > capital
       THEN RiskCheckResult(FALSE, 0, 0, "daily_loss")
       ELSE RiskCheckResult(TRUE, 0, 0, "")

\* RiskManager._check_concentration_risk: fewer than 5 positions
RiskManager_check_concentration_risk(decision, pf) ==
    RiskCheckResult(TRUE, 0, IF Cardinality(DOMAIN pf.positions) < 5 THEN 2 ELSE 0, "")

\* RiskManager._get_correlation: 0.0 for a pair the matrix does not hold
RiskManager_get_correlation(corr, symbol1, symbol2) ==
    IF <<symbol1, symbol2>> \in DOMAIN corr THEN corr[<<symbol1, symbol2>>] ELSE 0

\* RiskManager._check_correlation_risk: more than 3 positions correlated above 0.7
RiskManager_check_correlation_risk(decision, pf, corr) ==
    LET high_correlation_count ==
            Cardinality({s \in DOMAIN pf.positions :
                            RiskManager_get_correlation(corr, decision.symbol, s) > 70})
    IN RiskCheckResult(TRUE, 0, IF high_correlation_count > 3 THEN 2 ELSE 0, "")

\* RiskManager._check_volatility_risk: volatility above 0.4
RiskManager_check_volatility_risk(decision, vol) ==
    RiskCheckResult(TRUE, 0, IF vol[decision.symbol] > 40 THEN 1 ELSE 0, "")

\* RiskManager._calculate_optimal_position_size
RiskManager_calculate_optimal_position_size(decision, risk_score) ==
    LET base_quantity == decision.quantity
        adjusted_quantity ==
            IF risk_score > 5
            THEN Trunc(base_quantity * Max(5, 10 - risk_score), 10)
            ELSE base_quantity
    IN Max(1, adjusted_quantity)

\* RiskManager.check_trade_risk
RiskManager_check_trade_risk(decision, pf, capital, vol, corr) ==
    LET cash_check == RiskManager_check_cash_availability(decision, pf)
        position_check == RiskManager_check_position_limits(decision, pf)
        daily_loss_check == RiskManager_check_daily_loss_limit(pf, capital)
        risk_score == position_check.risk_score
                      + RiskManager_check_concentration_risk(decision, pf).risk_score
                      + RiskManager_check_correlation_risk(decision, pf, corr).risk_score
                      + RiskManager_check_volatility_risk(decision, vol).risk_score
    IN IF ~cash_check.approved THEN cash_check
       ELSE IF ~position_check.approved THEN position_check
       ELSE IF ~daily_loss_check.approved THEN daily_loss_check
       ELSE RiskCheckResult(TRUE,
                            RiskManager_calculate_optimal_position_size(decision, risk_score),
                            risk_score, "ok")

\* check_trade_risk if it wrote the adjusted quantity into the decision
RiskManager_check_trade_risk_objects_Adjusting(decision, pf, capital, vol, corr) ==
    LET result == RiskManager_check_trade_risk(decision, pf, capital, vol, corr) IN
    [decision |-> IF result.approved
                  THEN [decision EXCEPT !.quantity = result.adjusted_quantity]
                  ELSE decision,
     pf |-> pf]

\* RiskManager.check_trade_risk, the objects it was given after the call:
\* lines 70-322 read the decision and the portfolio (get_position,
\* get_positions, get_status, get_trade_history) and assign to neither
RiskManager_check_trade_risk_objects(decision, pf, capital, vol, corr) ==
    [decision |-> decision, pf |-> pf]

\* the volatility and correlation tables initialize() draws at random
\* (volatility 0.15 to 0.6, correlation -0.5 to 0.8): below and above the thresholds
VolatilityTables == [Symbols -> {30, 50}]
CorrelationTables ==
    [{<<a, b>> \in Symbols \X Symbols : a # b} -> {0, 80}]

\* RiskManager.__init__ and initialize(), with the tables of one draw
InitRiskManager ==
    /\ volatility_data = [s \in Symbols |-> 30]
    /\ correlation_matrix = [pr \in {<<a, b>> \in Symbols \X Symbols : a # b} |-> 0]

----------------------------------------------------------------------------
(* core/trading_engine.py, main.py *)

\* the models enabled in AI_MODELS, one asyncio task each per cycle
Models == {"qwen-max", "deepseek-v3"}

\* trading cycles explored
MaxCycles == 1

\* INITIAL_CAPITAL of the engine runs, in mills ($400)
EngineCapital == 400000

NoDecision == [symbol |-> "none"]

\* what make_trading_decision can return: None, or a decision
EngineDecisions ==
    {NoDecision}
    \cup {Decision("AAPL", "buy", 2, price) : price \in {NoPrice} \cup LimitPrices}
    \cup {Decision("AAPL", "sell", 1, NoPrice), Decision("MSFT", "buy", 1, NoPrice)}

\* INITIAL_CAPITAL of the engine runs with large orders, in mills ($20000)
LargeCapital == 20000000

\* the quantity of a large order: above 100 shares the per-share fee of the
\* ledger exceeds its minimum
LargeQuantity == 101

\* the decisions of the runs with large orders
LargeDecisions ==
    {NoDecision, Decision("AAPL", "buy", LargeQuantity, NoPrice),
     Decision("AAPL", "sell", LargeQuantity, NoPrice)}

\* INITIAL_CAPITAL of the engine runs with limit orders over several
\* cycles, in mills ($500)
PendingCapital == 500000

\* trading cycles explored in the runs with limit orders over several cycles
MaxPendingCycles == 2

\* the decisions of the runs with limit orders over several cycles
PendingDecisions == {NoDecision} \cup {Decision("AAPL", "buy", 2, price) : price \in LimitPrices}

\* INITIAL_CAPITAL of the engine runs with hold decisions, in mills ($300)
HoldCapital == 300000

\* the decisions of the runs with hold decisions
HoldDecisions ==
    {NoDecision, Decision("AAPL", "hold", 1, NoPrice),
     Decision("AAPL", "hold", 1, 150000)}

\* the initial capitals of the engine runs, and the decisions made in each
EngineCapitals == {EngineCapital, LargeCapital}
DecisionsFor(capital) ==
    IF capital = LargeCapital THEN LargeDecisions
    ELSE IF capital = HoldCapital THEN HoldDecisions
    ELSE IF capital = PendingCapital THEN PendingDecisions
    ELSE EngineDecisions

\* the number of cycles explored in the runs of a capital
CycleBound(capital) == IF capital = PendingCapital THEN MaxPendingCycles ELSE MaxCycles

\* a task as asyncio.create_task leaves it
NewTask ==
    [st |-> "ready", pc |-> "decide", io_done |-> FALSE, requested |-> NoDecision,
     decision |-> NoDecision, order_id |-> 0, quote |-> NoPrice,
     result |-> FailedResult, outcome |-> "none",
     producer_raised |-> FALSE, escaped |-> FALSE]

\* a task that has ended
EndTask(task, outcome) == [task EXCEPT !.st = "done", !.pc = "done", !.outcome = outcome]

\* execute_trade if place_order suspended the task
SuspensionPoints_PlaceOrder == {"decide", "order"}

\* execute_trade if update_position suspended the task
SuspensionPoints_UpdatePosition == {"decide", "ledger"}

\* the places of execute_model_trading and execute_trade where the awaited
\* call suspends the task and hands the event loop to other tasks: the await
\* of get_market_data and make_trading_decision (network calls).  Everything
\* awaited inside execute_trade is a coroutine that never suspends.
SuspensionPoints == {"decide"}

\* TradingEngine.execute_trade lines 121-140: the risk check and the
\* overwrite of decision.quantity: [approved, decision]
Engine_risk_step(decision, pf, capital, vol, corr) ==
    LET risk_check == RiskManager_check_trade_risk(decision, pf, capital, vol, corr) IN
    [approved |-> risk_check.approved,
     decision |-> IF risk_check.approved
                  THEN [decision EXCEPT !.quantity = risk_check.adjusted_quantity]
                  ELSE decision]

\* TradingEngine.execute_trade lines 145-152 and 168-173: the ledger update
\* for a successful result: [raised, pf]
Engine_ledger_step(decision, result, pf) ==
    Portfolio_update_position(pf, decision.symbol, decision.action,
                              result.executed_quantity, result.executed_price)

\* TradingEngine.execute_trade if it had no except clause: the exception of
\* update_position leaves execute_trade
Engine_except_Missing(raised, result) == [escaped |-> raised, result |-> result]

\* TradingEngine.execute_trade lines 166-173: `return result`, or the except
\* clause that turns an exception into a failed TradeResult:
\* [escaped, result], escaped when an exception leaves execute_trade
Engine_except(raised, result) ==
    [escaped |-> FALSE, result |-> IF raised THEN FailedResult ELSE result]

\* what the await of make_trading_decision can bring: None, a decision, or
\* an exception
ProducerOutcomes(decisions) ==
    {[raised |-> FALSE, decision |-> decision] : decision \in decisions}
    \cup {[raised |-> TRUE, decision |-> NoDecision]}

\* TradingEngine.execute_trade run from start to end on ledger pf, with the price
\* _get_current_price returns: the ledger afterwards
Engine_execute_trade(decision, price, pf, capital, vol, corr) ==
    LET risk == Engine_risk_step(decision, pf, capital, vol, corr)
        placed == OrderManager_simulate_order_execution(
                      0, OrderManager_create_order(risk.decision), price)
    IN IF ~risk.approved THEN pf
       ELSE IF ~placed.result.success THEN pf
       ELSE Engine_ledger_step(risk.decision, placed.result, pf).pf

\* the decisions of the tasks of order, applied one after the other
RECURSIVE ApplyInOrder(_, _, _, _, _, _)
ApplyInOrder(order, tk, pf, capital, vol, corr) ==
    IF order = <<>> THEN pf
    ELSE ApplyInOrder(Tail(order), tk,
                      Engine_execute_trade(tk[Head(order)].requested, tk[Head(order)].quote,
                                           pf, capital, vol, corr),
                      capital, vol, corr)

\* TradingEngine.__init__, ATRSystem.__init__: no task yet
InitEngine ==
    /\ tasks = [m \in Models |-> EndTask(NewTask, "none")]
    /\ running = "none"
    /\ arrival = <<>>
    /\ cycle_start = Ledger(0, <<>>, <<>>)
    /\ cycle_quotes = [s \in Symbols |-> NoPrice]
    /\ cycle = 0

\* no ledger call in progress on either thread
InitWeb ==
    /\ writer = [pc |-> "idle"]
    /\ reader = [pc |-> "idle"]
    /\ boundary = {}

\* the current ledger
ThePortfolio == Ledger(cash_balance, positions, trade_history)

NoCall == [op |-> "none"]

\* Portfolio.__init__ followed by Portfolio.initialize(c)
InitPortfolio(c) ==
    /\ initial_capital = c
    /\ cash_balance = c
    /\ positions = <<>>
    /\ trade_history = <<>>

----------------------------------------------------------------------------
(* The ledger alone: direct calls of Portfolio.update_position *)

LedgerInit ==
    /\ \E c \in LedgerCapitals : InitPortfolio(c)
    /\ InitOrderManager
    /\ InitRiskManager
    /\ InitEngine
    /\ InitWeb
    /\ call = NoCall
    /\ in_c1_domain = TRUE

\* one call update_position(symbol, action, quantity, price), returning or raising
LedgerUpdatePosition ==
    \E symbol \in Symbols, action \in {"buy", "sell"},
       quantity \in {0, 1, MaxQty}, price \in LedgerPrices :
        LET r == Portfolio_update_position(ThePortfolio, symbol, action, quantity, price) IN
        /\ Len(trade_history) < MaxTrades
        /\ cash_balance' = r.pf.cash_balance
        /\ positions' = r.pf.positions
        /\ trade_history' = r.pf.trade_history
        /\ call' = [op |-> "update_position", symbol |-> symbol, action |-> action,
                    quantity |-> quantity, price |-> price, raised |-> r.raised]
        /\ in_c1_domain' = (in_c1_domain /\ quantity >= 1 /\ price > 0)
        /\ UNCHANGED <<initial_capital, omVars, rmVars, engVars, webVars>>

LedgerNext == LedgerUpdatePosition

SpecLedger == LedgerInit /\ [][LedgerNext]_vars

----------------------------------------------------------------------------
(* The order manager alone: calls of place_order, cancel_order,
   process_pending_orders and shutdown in any order.  The calls run on one
   asyncio event loop and none of them suspends, so a call runs to its end
   before the next starts; place_order is shown in its two steps,
   _create_order and _submit_order. *)

\* the decisions handed to place_order
OrderDecisions ==
    {Decision(symbol, action, quantity, price) :
        symbol \in Symbols, action \in {"buy", "sell"},
        quantity \in {MaxQty}, price \in {NoPrice} \cup LimitPrices}

OrdersInit ==
    /\ InitPortfolio(0)
    /\ InitOrderManager
    /\ InitRiskManager
    /\ InitEngine
    /\ InitWeb
    /\ call = NoCall
    /\ in_c1_domain = TRUE

\* place_order, first step: _create_order stores the order, status PENDING
OrdersPlaceCreate ==
    \E decision \in OrderDecisions :
        /\ placing = 0
        /\ Len(orders) < MaxOrders
        /\ orders' = Append(orders, OrderManager_create_order(decision))
        /\ placing' = Len(orders) + 1
        /\ call' = [op |-> "_create_order", order_id |-> Len(orders) + 1]
        /\ UNCHANGED <<pfVars, fills, market_data_cache, quote_down, in_c1_domain, rmVars, engVars, webVars>>

\* place_order, second step: _submit_order runs _simulate_order_execution
OrdersPlaceSubmit ==
    /\ placing # 0
    /\ \E got \in OrderManager_get_current_price(market_data_cache,
                                                  orders[placing].symbol, quote_down) :
        LET r == OrderManager_simulate_order_execution(placing, orders[placing], got.price) IN
        /\ orders' = [orders EXCEPT ![placing] = r.order]
        /\ fills' = fills \o r.fills
        /\ market_data_cache' = got.cache
        /\ call' = [op |-> "place_order", order_id |-> placing, quote |-> got.price,
                    result |-> r.result]
    /\ placing' = 0
    /\ UNCHANGED <<pfVars, quote_down, in_c1_domain, rmVars, engVars, webVars>>

\* cancel_order(order_id), for every stored id and one unknown id
OrdersCancel ==
    \E order_id \in 1..(Len(orders) + 1) :
        LET r == OrderManager_cancel_order(orders, order_id) IN
        /\ placing = 0
        /\ orders' = r.orders
        /\ call' = [op |-> "cancel_order", order_id |-> order_id, returned |-> r.returned]
        /\ UNCHANGED <<pfVars, fills, market_data_cache, placing, quote_down, in_c1_domain, rmVars, engVars, webVars>>

\* process_pending_orders(): one whole pass over the SUBMITTED limit orders
OrdersProcessPending ==
    \E price \in [Symbols -> {NoPrice} \cup UNION {Quotes(s) : s \in Symbols}] :
        LET todo == OrderManager_pending_orders(orders)
            fetched == {orders[i].symbol : i \in todo}
            om == ProcessPending([orders |-> orders, fills |-> fills], todo, price)
        IN
        /\ placing = 0
        /\ \A s \in Symbols :
              IF s \in fetched
              THEN \E got \in OrderManager_get_current_price(market_data_cache, s, quote_down) :
                      got.price = price[s]
              ELSE price[s] = NoPrice
        /\ orders' = om.orders
        /\ fills' = om.fills
        /\ market_data_cache' =
              [s \in Symbols |-> IF price[s] # NoPrice THEN price[s]
                                 ELSE market_data_cache[s]]
        /\ call' = [op |-> "process_pending_orders", seen |-> Cardinality(todo),
                    filled |-> Len(om.fills) - Len(fills)]
        /\ UNCHANGED <<pfVars, placing, quote_down, in_c1_domain, rmVars, engVars, webVars>>

\* shutdown(): cancel_order on every order get_orders(status=PENDING) returns
OrdersShutdown ==
    /\ placing = 0
    /\ orders' = [i \in 1..Len(orders) |->
                    IF i \in OrderManager_shutdown_orders(orders)
                    THEN OrderManager_cancel_order(orders, i).orders[i]
                    ELSE orders[i]]
    /\ call' = [op |-> "shutdown"]
    /\ UNCHANGED <<pfVars, fills, market_data_cache, placing, quote_down, in_c1_domain, rmVars, engVars, webVars>>

\* five minutes pass: the cache entry of a symbol is no longer used (line 272)
CacheExpire ==
    \E s \in Symbols :
        /\ market_data_cache[s] # NoPrice
        /\ market_data_cache' = [market_data_cache EXCEPT ![s] = NoPrice]
        /\ UNCHANGED <<pfVars, orders, fills, placing, quote_down, call, in_c1_domain, rmVars, engVars, webVars>>

\* the quote lookup starts or stops failing
QuoteOutage ==
    /\ quote_down' = ~quote_down
    /\ UNCHANGED <<pfVars, orders, fills, market_data_cache, placing, call, in_c1_domain, rmVars, engVars, webVars>>

OrdersNext ==
    \/ OrdersPlaceCreate
    \/ OrdersPlaceSubmit
    \/ OrdersCancel
    \/ OrdersProcessPending
    \/ OrdersShutdown
    \/ CacheExpire
    \/ QuoteOutage

SpecOrders == OrdersInit /\ [][OrdersNext]_vars

----------------------------------------------------------------------------
(* The risk gate alone: check_trade_risk applied to a decision and a ledger *)

\* initial capitals, in mills ($50, $1000, $5000)
RiskCapitals == {50000, 1000000, 5000000}

\* the decisions checked: 0, 1, 10 or 100 units, at market or with a $20 limit
RiskDecisions ==
    {Decision(symbol, action, quantity, price) :
        symbol \in Symbols, action \in {"buy", "sell"},
        quantity \in {0, 1, 10, 100}, price \in {NoPrice, 20000}}

\* the ledgers checked against: a fresh ledger, or one after a first buy of
\* 10 AAPL at $20
RiskLedgers(c) ==
    LET fresh == Ledger(c, <<>>, <<>>)
        bought == Portfolio_update_position(fresh, "AAPL", "buy", 10, 20000)
        sold == Portfolio_update_position(bought.pf, "AAPL", "sell", 10, 30000)
    IN {fresh} \cup (IF bought.raised THEN {} ELSE {bought.pf})
               \cup (IF bought.raised \/ sold.raised THEN {} ELSE {sold.pf})

RiskInit ==
    /\ \E c \in RiskCapitals : \E pf \in RiskLedgers(c) :
          /\ initial_capital = c
          /\ cash_balance = pf.cash_balance
          /\ positions = pf.positions
          /\ trade_history = pf.trade_history
    /\ InitOrderManager
    /\ volatility_data \in VolatilityTables
    /\ correlation_matrix \in CorrelationTables
    /\ InitEngine
    /\ InitWeb
    /\ call = NoCall
    /\ in_c1_domain = TRUE

\* one call check_trade_risk(decision, portfolio)
RiskCheck ==
    \E decision \in RiskDecisions :
        LET after == RiskManager_check_trade_risk_objects(decision, ThePortfolio,
                        initial_capital, volatility_data, correlation_matrix) IN
        /\ cash_balance' = after.pf.cash_balance
        /\ positions' = after.pf.positions
        /\ trade_history' = after.pf.trade_history
        /\ call' = [op |-> "check_trade_risk", decision |-> decision,
                    decision_after |-> after.decision,
                    result |-> RiskManager_check_trade_risk(decision, ThePortfolio,
                                  initial_capital, volatility_data, correlation_matrix)]
        /\ UNCHANGED <<initial_capital, omVars, rmVars, engVars, webVars, in_c1_domain>>

RiskNext == RiskCheck

SpecRisk == RiskInit /\ [][RiskNext]_vars

----------------------------------------------------------------------------
(* The engine: the tasks of start_trading, one per model and cycle, on one
   event loop.  A task keeps the loop until it ends or suspends; the loop
   then runs any ready task. *)

EngineInit ==
    /\ \E c \in EngineCapitals : InitPortfolio(c)
    /\ InitOrderManager
    /\ volatility_data \in {[s \in Symbols |-> v] : v \in {30, 50}}
    /\ correlation_matrix = [pr \in {<<a, b>> \in Symbols \X Symbols : a # b} |-> 0]
    /\ InitEngine
    /\ InitWeb
    /\ call = NoCall
    /\ in_c1_domain = TRUE

AllDone == \A m \in Models : tasks[m].st = "done"

\* whether task m holds the event loop and its next statement can run
CanStep(m, pc) ==
    /\ running = m
    /\ tasks[m].pc = pc
    /\ pc \in SuspensionPoints => tasks[m].io_done

\* start_trading, one pass of the loop: a task per active model, then gather
CycleStart ==
    /\ AllDone
    /\ cycle < CycleBound(initial_capital)
    /\ tasks' = [m \in Models |-> NewTask]
    /\ arrival' = <<>>
    /\ cycle_start' = ThePortfolio
    /\ cycle_quotes' = market_data_cache
    /\ cycle' = cycle + 1
    /\ UNCHANGED <<pfVars, omVars, rmVars, webVars, running, call, in_c1_domain>>

\* the event loop picks a ready task
TaskRun(m) ==
    /\ running = "none"
    /\ tasks[m].st = "ready"
    /\ tasks' = [tasks EXCEPT ![m].st = "running"]
    /\ running' = m
    /\ UNCHANGED <<pfVars, omVars, rmVars, webVars, arrival, cycle_start, cycle_quotes, cycle, call,
                   in_c1_domain>>

\* the running task reaches an await that suspends it
TaskAwait(m) ==
    /\ running = m
    /\ tasks[m].pc \in SuspensionPoints
    /\ ~tasks[m].io_done
    /\ tasks' = [tasks EXCEPT ![m].st = "waiting"]
    /\ running' = "none"
    /\ UNCHANGED <<pfVars, omVars, rmVars, webVars, arrival, cycle_start, cycle_quotes, cycle, call,
                   in_c1_domain>>

\* the awaited call of a suspended task completes; for the await of
\* get_market_data and make_trading_decision it brings the decision or None
IOCompletes(m) ==
    /\ tasks[m].st = "waiting"
    /\ \E got \in ProducerOutcomes(DecisionsFor(initial_capital)) :
        tasks' = [tasks EXCEPT ![m].st = "ready", ![m].io_done = TRUE,
                               ![m].producer_raised = IF tasks[m].pc = "decide"
                                                      THEN got.raised ELSE @,
                               ![m].requested = IF tasks[m].pc = "decide"
                                                THEN got.decision ELSE @,
                               ![m].decision = IF tasks[m].pc = "decide"
                                               THEN got.decision ELSE @]
    /\ UNCHANGED <<pfVars, omVars, rmVars, webVars, running, arrival, cycle_start, cycle_quotes, cycle,
                   call, in_c1_domain>>

\* execute_model_trading lines 100-107 and 115-116: the exception of the
\* producer is caught and ends the task; `if decision:` and the call of
\* execute_trade
StepDecide(m) ==
    /\ CanStep(m, "decide")
    /\ IF tasks[m].producer_raised \/ tasks[m].requested = NoDecision
       THEN /\ tasks' = [tasks EXCEPT ![m] = EndTask(@, IF tasks[m].producer_raised
                                                        THEN "producer_raised"
                                                        ELSE "no_decision")]
            /\ running' = "none"
            /\ UNCHANGED arrival
       ELSE /\ tasks' = [tasks EXCEPT ![m].pc = "risk", ![m].io_done = FALSE]
            /\ arrival' = Append(arrival, m)
            /\ UNCHANGED running
    /\ UNCHANGED <<pfVars, omVars, rmVars, webVars, cycle_start, cycle_quotes, cycle, call, in_c1_domain>>

\* execute_trade lines 121-140: check_trade_risk, the rejection, the adjusted quantity
StepRisk(m) ==
    /\ CanStep(m, "risk")
    /\ LET risk == Engine_risk_step(tasks[m].decision, ThePortfolio, initial_capital,
                                    volatility_data, correlation_matrix)
       IN IF ~risk.approved
          THEN /\ tasks' = [tasks EXCEPT ![m] = EndTask(@, "risk_rejected")]
               /\ running' = "none"
          ELSE /\ tasks' = [tasks EXCEPT ![m].pc = "order", ![m].io_done = FALSE,
                                         ![m].decision = risk.decision]
               /\ UNCHANGED running
    /\ UNCHANGED <<pfVars, omVars, rmVars, webVars, arrival, cycle_start, cycle_quotes, cycle, call,
                   in_c1_domain>>

\* execute_trade lines 142-145 and 161-166: place_order and the test of result.success
StepOrder(m) ==
    /\ CanStep(m, "order")
    /\ \E got \in OrderManager_get_current_price(market_data_cache,
                                                  tasks[m].decision.symbol, quote_down) :
        LET order_id == Len(orders) + 1
            r == OrderManager_simulate_order_execution(
                     order_id, OrderManager_create_order(tasks[m].decision), got.price)
        IN /\ orders' = Append(orders, r.order)
           /\ fills' = fills \o r.fills
           /\ market_data_cache' = got.cache
           /\ IF r.result.success
              THEN /\ tasks' = [tasks EXCEPT ![m].pc = "ledger", ![m].io_done = FALSE,
                                             ![m].order_id = order_id,
                                             ![m].quote = got.price,
                                             ![m].result = r.result]
                   /\ UNCHANGED running
              ELSE /\ tasks' = [tasks EXCEPT ![m] = EndTask([@ EXCEPT !.order_id = order_id,
                                                                     !.quote = got.price,
                                                                     !.result = r.result],
                                                           "order_failed")]
                   /\ running' = "none"
    /\ UNCHANGED <<pfVars, placing, quote_down, rmVars, webVars, arrival, cycle_start, cycle_quotes, cycle,
                   call, in_c1_domain>>

\* execute_trade lines 146-160 and 168-173: update_position; an exception
\* becomes a failed TradeResult
StepLedger(m) ==
    /\ CanStep(m, "ledger")
    /\ LET r == Engine_ledger_step(tasks[m].decision, tasks[m].result, ThePortfolio) IN
        /\ cash_balance' = r.pf.cash_balance
        /\ positions' = r.pf.positions
        /\ trade_history' = r.pf.trade_history
        /\ tasks' = [tasks EXCEPT
                        ![m] = EndTask([@ EXCEPT
                                          !.result = Engine_except(r.raised, @).result,
                                          !.escaped = Engine_except(r.raised,
                                                                    tasks[m].result).escaped],
                                       IF r.raised THEN "ledger_raised" ELSE "applied")]
    /\ running' = "none"
    /\ UNCHANGED <<initial_capital, omVars, rmVars, webVars, arrival, cycle_start, cycle_quotes, cycle,
                   call, in_c1_domain>>

EngineNext ==
    \/ CycleStart
    \/ \E m \in Models : TaskRun(m)
    \/ \E m \in Models : TaskAwait(m)
    \/ \E m \in Models : IOCompletes(m)
    \/ \E m \in Models : StepDecide(m)
    \/ \E m \in Models : StepRisk(m)
    \/ \E m \in Models : StepOrder(m)
    \/ \E m \in Models : StepLedger(m)
    \/ CacheExpire
    \/ QuoteOutage

SpecEngine == EngineInit /\ [][EngineNext]_vars

(* The engine under the scheduling of the event loop: a ready task is run,
   a running task executes its next statement, and the loop of start_trading
   starts the next cycle once gather has returned.  The awaited call of a
   responsive producer completes; nothing in start_trading or
   execute_model_trading bounds the wait for the others. *)
Responsive == {"qwen-max"}

EngineFairness ==
    /\ WF_vars(CycleStart)
    /\ \A m \in Models :
          /\ WF_vars(TaskRun(m))
          /\ WF_vars(TaskAwait(m))
          /\ WF_vars(StepDecide(m))
          /\ WF_vars(StepRisk(m))
          /\ WF_vars(StepOrder(m))
          /\ WF_vars(StepLedger(m))
    /\ \A m \in Responsive : WF_vars(IOCompletes(m))

SpecEngineFair == EngineInit /\ [][EngineNext]_vars /\ EngineFairness

\* the engine runs with limit orders over several cycles
PendingInit ==
    /\ InitPortfolio(PendingCapital)
    /\ InitOrderManager
    /\ InitRiskManager
    /\ InitEngine
    /\ InitWeb
    /\ call = NoCall
    /\ in_c1_domain = TRUE

SpecPending == PendingInit /\ [][EngineNext]_vars

\* the engine runs with hold decisions
HoldInit ==
    /\ InitPortfolio(HoldCapital)
    /\ InitOrderManager
    /\ InitRiskManager
    /\ InitEngine
    /\ InitWeb
    /\ call = NoCall
    /\ in_c1_domain = TRUE

SpecHold == HoldInit /\ [][EngineNext]_vars

----------------------------------------------------------------------------
(* The ledger and the web server: update_position runs on the thread of the
   event loop, get_status on a thread of the Flask server (run_web_server,
   api_portfolio).  No lock is taken by either; a thread switch can fall
   between any two statements. *)

\* INITIAL_CAPITAL of the web runs, in mills ($12)
WebCapital == 12000

\* the (cash_balance, positions_value, total_value) of a ledger
StatusTriple(pf) ==
    <<Portfolio_get_status(pf).cash_balance, Portfolio_get_status(pf).positions_value,
      Portfolio_get_status(pf).total_value>>

WebInit ==
    /\ InitPortfolio(WebCapital)
    /\ InitOrderManager
    /\ InitRiskManager
    /\ InitEngine
    /\ writer = [pc |-> "idle"]
    /\ reader = [pc |-> "idle"]
    /\ boundary = {StatusTriple(Ledger(WebCapital, <<>>, <<>>))}
    /\ call = NoCall
    /\ in_c1_domain = TRUE

\* update_position up to the cash statement of _buy_stock (line 110) or
\* _sell_stock (line 149); a call that raises before it changes nothing
WebFillCash ==
    \E symbol \in Symbols, action \in {"buy", "sell"}, quantity \in {1, MaxQty},
       price \in LedgerPrices :
        LET r == Portfolio_update_position(ThePortfolio, symbol, action, quantity, price) IN
        /\ writer.pc = "idle"
        /\ Len(trade_history) < MaxTrades
        /\ cash_balance' = r.pf.cash_balance
        /\ writer' = IF r.raised THEN writer
                     ELSE [pc |-> "cash", symbol |-> symbol, action |-> action,
                           quantity |-> quantity, price |-> price,
                           commission |-> Portfolio_calculate_commission(quantity, price)]
        /\ UNCHANGED <<initial_capital, positions, trade_history, omVars, rmVars, engVars,
                       reader, boundary, call, in_c1_domain>>

\* the position statements of _buy_stock (lines 113-130) or _sell_stock
\* (lines 151-159)
WebFillPosition ==
    /\ writer.pc = "cash"
    /\ positions' = IF writer.action = "buy"
                    THEN Portfolio_buy_positions(positions, writer.symbol, writer.quantity,
                                                 writer.price)
                    ELSE Portfolio_sell_positions(positions, writer.symbol, writer.quantity)
    /\ trade_history' =
          IF writer.action = "sell"
          THEN Portfolio_sell_history(trade_history,
                   (writer.price - positions[writer.symbol].avg_cost) * writer.quantity
                   - writer.commission)
          ELSE trade_history
    /\ writer' = [writer EXCEPT !.pc = "position"]
    /\ boundary' = boundary \cup {StatusTriple(Ledger(cash_balance, positions', trade_history'))}
    /\ UNCHANGED <<initial_capital, cash_balance, omVars, rmVars, engVars, reader, call,
                   in_c1_domain>>

\* the append of the trade record (update_position lines 84-95)
WebFillRecord ==
    /\ writer.pc = "position"
    /\ trade_history' = Append(trade_history,
                               TradeRecord(writer.symbol, writer.action, writer.quantity,
                                           writer.price, writer.commission))
    /\ writer' = [pc |-> "idle"]
    /\ UNCHANGED <<initial_capital, cash_balance, positions, omVars, rmVars, engVars,
                   reader, boundary, call, in_c1_domain>>

\* get_status line 173: positions_value
WebReadPositions ==
    /\ reader.pc \in {"idle", "returned"}
    /\ reader' = [pc |-> "positions", positions_value |-> PositionsValue(positions)]
    /\ UNCHANGED <<pfVars, omVars, rmVars, engVars, writer, boundary, call, in_c1_domain>>

\* get_status line 174: total_value = self.cash_balance + positions_value
WebReadTotal ==
    /\ reader.pc = "positions"
    /\ reader' = [pc |-> "total", positions_value |-> reader.positions_value,
                  total_value |-> cash_balance + reader.positions_value]
    /\ UNCHANGED <<pfVars, omVars, rmVars, engVars, writer, boundary, call, in_c1_domain>>

\* get_status lines 185-198: the status dict with 'cash_balance': self.cash_balance
WebReadCash ==
    /\ reader.pc = "total"
    /\ reader' = [pc |-> "returned", positions_value |-> reader.positions_value,
                  total_value |-> reader.total_value, cash_balance |-> cash_balance]
    /\ UNCHANGED <<pfVars, omVars, rmVars, engVars, writer, boundary, call, in_c1_domain>>

WebNext ==
    \/ WebFillCash
    \/ WebFillPosition
    \/ WebFillRecord
    \/ WebReadPositions
    \/ WebReadTotal
    \/ WebReadCash

SpecWeb == WebInit /\ [][WebNext]_vars

----------------------------------------------------------------------------
(* The round trip: on a new ledger, one buy through update_position and then
   the sell of the same quantity of the same symbol at the same price *)

\* initial capitals, quantities and prices (mills) of the round trips
RoundTripCapitals == {10000000, 40000000}
RoundTripQuantities == {1, 2, 100, 101, 200}
RoundTripPrices == {500, 9000, 148000}

RoundTripInit ==
    /\ \E c \in RoundTripCapitals : InitPortfolio(c)
    /\ InitOrderManager
    /\ InitRiskManager
    /\ InitEngine
    /\ InitWeb
    /\ call = NoCall
    /\ in_c1_domain = TRUE

\* update_position(symbol, 'buy', quantity, price) on the new ledger
RoundTripBuy ==
    \E symbol \in Symbols, quantity \in RoundTripQuantities, price \in RoundTripPrices :
        LET r == Portfolio_update_position(ThePortfolio, symbol, "buy", quantity, price) IN
        /\ call = NoCall
        /\ cash_balance' = r.pf.cash_balance
        /\ positions' = r.pf.positions
        /\ trade_history' = r.pf.trade_history
        /\ call' = [op |-> "round_trip_buy", symbol |-> symbol, quantity |-> quantity,
                    price |-> price, raised |-> r.raised]
        /\ UNCHANGED <<initial_capital, omVars, rmVars, engVars, webVars, in_c1_domain>>

\* update_position(symbol, 'sell', quantity, price) with the arguments of the buy
RoundTripSell ==
    LET r == Portfolio_update_position(ThePortfolio, call.symbol, "sell", call.quantity,
                                       call.price) IN
    /\ call.op = "round_trip_buy"
    /\ ~call.raised
    /\ cash_balance' = r.pf.cash_balance
    /\ positions' = r.pf.positions
    /\ trade_history' = r.pf.trade_history
    /\ call' = [call EXCEPT !.op = "round_trip_sell", !.raised = r.raised]
    /\ UNCHANGED <<initial_capital, omVars, rmVars, engVars, webVars, in_c1_domain>>

RoundTripNext == RoundTripBuy \/ RoundTripSell

SpecRoundTrip == RoundTripInit /\ [][RoundTripNext]_vars

----------------------------------------------------------------------------
(* get_status on a new ledger and after buys through update_position *)

\* initial capitals, quantities and prices (mills) of the status runs
StatusCapitals == {0, 100000}
StatusQuantities == {1, 2}
StatusPrices == {8000, 9000}

\* update_position calls explored in the status runs
MaxStatusTrades == 3

StatusInit ==
    /\ \E c \in StatusCapitals : InitPortfolio(c)
    /\ InitOrderManager
    /\ InitRiskManager
    /\ InitEngine
    /\ InitWeb
    /\ call = NoCall
    /\ in_c1_domain = TRUE

\* update_position(symbol, 'buy', quantity, price), returning or raising
StatusBuy ==
    \E symbol \in Symbols, quantity \in StatusQuantities, price \in StatusPrices :
        LET r == Portfolio_update_position(ThePortfolio, symbol, "buy", quantity, price) IN
        /\ Len(trade_history) < MaxStatusTrades
        /\ cash_balance' = r.pf.cash_balance
        /\ positions' = r.pf.positions
        /\ trade_history' = r.pf.trade_history
        /\ call' = [op |-> "update_position", symbol |-> symbol, action |-> "buy",
                    quantity |-> quantity, price |-> price, raised |-> r.raised]
        /\ UNCHANGED <<initial_capital, omVars, rmVars, engVars, webVars, in_c1_domain>>

StatusNext == StatusBuy

SpecStatus == StatusInit /\ [][StatusNext]_vars

----------------------------------------------------------------------------
(* get_fills on the fill store.  In these runs every Fill carries its
   timestamp (datetime.now() when it was created), the number of the fill
   in the order of creation. *)

\* fills recorded in the fill-store runs
MaxFills == 3

\* the symbol filters of get_fills (None: no filter) and its limits
NoSymbol == "none"
FillFilters == {NoSymbol} \cup Symbols
FillLimits == {1, 100}

\* a Fill with its timestamp (lines 227-235)
FillAt(fill, timestamp) ==
    [order_id |-> fill.order_id, symbol |-> fill.symbol, quantity |-> fill.quantity,
     price |-> fill.price, commission |-> fill.commission, timestamp |-> timestamp]

\* list.sort(key=timestamp, reverse=True): newest first
RECURSIVE SortNewestFirst(_)
SortNewestFirst(fs) ==
    IF fs = <<>> THEN <<>>
    ELSE LET k == CHOOSE i \in 1..Len(fs) :
                     \A j \in 1..Len(fs) : fs[j].timestamp <= fs[i].timestamp
         IN <<fs[k]>> \o SortNewestFirst(SubSeq(fs, 1, k - 1) \o SubSeq(fs, k + 1, Len(fs)))

\* the fills of a sequence with a given symbol, in their order
RECURSIVE FillsWithSymbol(_, _)
FillsWithSymbol(fs, symbol) ==
    IF fs = <<>> THEN <<>>
    ELSE (IF Head(fs).symbol = symbol THEN <<Head(fs)>> ELSE <<>>)
         \o FillsWithSymbol(Tail(fs), symbol)

\* OrderManager.get_fills(symbol, limit): [store, returned].  Without a
\* symbol the list that is sorted is self.fills itself; with a symbol it is
\* the new list of the comprehension.
OrderManager_get_fills(fs, symbol, limit) ==
    LET sorted == SortNewestFirst(IF symbol = NoSymbol THEN fs
                                  ELSE FillsWithSymbol(fs, symbol))
    IN [store |-> IF symbol = NoSymbol THEN sorted ELSE fs,
        returned |-> SubSeq(sorted, 1, Min(limit, Len(sorted)))]

FillsInit ==
    /\ InitPortfolio(0)
    /\ InitOrderManager
    /\ InitRiskManager
    /\ InitEngine
    /\ InitWeb
    /\ call = NoCall
    /\ in_c1_domain = TRUE

\* place_order for a market order: the order is created and filled
FillsPlace ==
    \E decision \in {Decision(symbol, action, 1, NoPrice) :
                        symbol \in Symbols, action \in {"buy", "sell"}} :
    \E got \in OrderManager_get_current_price(market_data_cache, decision.symbol,
                                                quote_down) :
        LET order_id == Len(orders) + 1
            r == OrderManager_simulate_order_execution(
                     order_id, OrderManager_create_order(decision), got.price)
        IN /\ Len(fills) < MaxFills
           /\ orders' = Append(orders, r.order)
           /\ fills' = fills \o [k \in 1..Len(r.fills) |-> FillAt(r.fills[k], Len(fills) + k)]
           /\ market_data_cache' = got.cache
           /\ call' = [op |-> "place_order", order_id |-> order_id, quote |-> got.price,
                       result |-> r.result]
           /\ UNCHANGED <<pfVars, placing, quote_down, rmVars, engVars, webVars, in_c1_domain>>

\* get_fills(symbol, limit)
FillsGet ==
    \E symbol \in FillFilters, limit \in FillLimits :
        LET r == OrderManager_get_fills(fills, symbol, limit) IN
        /\ fills' = r.store
        /\ call' = [op |-> "get_fills", symbol |-> symbol, limit |-> limit,
                    returned |-> r.returned]
        /\ UNCHANGED <<pfVars, orders, market_data_cache, placing, quote_down, rmVars,
                       engVars, webVars, in_c1_domain>>

FillsNext == FillsPlace \/ FillsGet

SpecFills == FillsInit /\ [][FillsNext]_vars

----------------------------------------------------------------------------
(* get_positions and its result.  The reader holds the dict get_positions
   returned: result is what the dict shows now, taken what it showed when it
   was returned, shared the symbols whose Position object in the dict is
   still the object held by the ledger. *)

\* initial capital, quantities and prices (mills) of the snapshot runs
SnapshotCapital == 100000
SnapshotQuantities == {1, 2}
SnapshotPrices == {8000, 9000}

\* update_position calls explored in the snapshot runs
MaxSnapshotTrades == 3

\* Portfolio.get_positions: self.positions.copy(), a new dict holding the
\* Position objects of the ledger
Portfolio_get_positions(pos) ==
    [pc |-> "holding", result |-> pos, taken |-> pos, shared |-> DOMAIN pos,
     written |-> FALSE]

\* what the dict of the reader shows after update_position took the ledger
\* from before to after: _buy_stock (lines 113-122) and _sell_stock (line
\* 152) assign to the fields of the held Position object, and `del` (line
\* 155) removes the object from the ledger only, with quantity 0
ResultAfterFill(holder, before, after) ==
    IF holder.pc # "holding" THEN holder
    ELSE [holder EXCEPT
            !.result = [s \in DOMAIN holder.result |->
                          IF s \notin holder.shared THEN holder.result[s]
                          ELSE IF s \in DOMAIN after THEN after[s]
                          ELSE [before[s] EXCEPT !.quantity = 0]],
            !.shared = holder.shared \cap DOMAIN after]

SnapshotInit ==
    /\ InitPortfolio(SnapshotCapital)
    /\ InitOrderManager
    /\ InitRiskManager
    /\ InitEngine
    /\ InitWeb
    /\ call = NoCall
    /\ in_c1_domain = TRUE

\* update_position(symbol, action, quantity, price), returning or raising
SnapshotUpdatePosition ==
    \E symbol \in Symbols, action \in {"buy", "sell"},
       quantity \in SnapshotQuantities, price \in SnapshotPrices :
        LET r == Portfolio_update_position(ThePortfolio, symbol, action, quantity, price) IN
        /\ Len(trade_history) < MaxSnapshotTrades
        /\ cash_balance' = r.pf.cash_balance
        /\ positions' = r.pf.positions
        /\ trade_history' = r.pf.trade_history
        /\ reader' = ResultAfterFill(reader, positions, r.pf.positions)
        /\ call' = [op |-> "update_position", symbol |-> symbol, action |-> action,
                    quantity |-> quantity, price |-> price, raised |-> r.raised]
        /\ UNCHANGED <<initial_capital, omVars, rmVars, engVars, writer, boundary,
                       in_c1_domain>>

\* the reader calls get_positions()
SnapshotGetPositions ==
    /\ reader.pc = "idle"
    /\ reader' = Portfolio_get_positions(positions)
    /\ call' = [op |-> "get_positions"]
    /\ UNCHANGED <<pfVars, omVars, rmVars, engVars, writer, boundary, in_c1_domain>>

\* the reader changes the result: result[symbol].quantity = 0
SnapshotWriteResult ==
    /\ reader.pc = "holding"
    /\ ~reader.written
    /\ \E symbol \in DOMAIN reader.result :
        /\ reader' = [reader EXCEPT !.result[symbol].quantity = 0, !.written = TRUE]
        /\ positions' = IF symbol \in reader.shared
                        THEN [positions EXCEPT ![symbol].quantity = 0]
                        ELSE positions
        /\ call' = [op |-> "write_result", symbol |-> symbol]
        /\ UNCHANGED <<initial_capital, cash_balance, trade_history, omVars, rmVars,
                       engVars, writer, boundary, in_c1_domain>>

SnapshotNext ==
    \/ SnapshotUpdatePosition
    \/ SnapshotGetPositions
    \/ SnapshotWriteResult

SpecSnapshot == SnapshotInit /\ [][SnapshotNext]_vars

----------------------------------------------------------------------------
(* OrderManager._calculate_commission as a function of its arguments *)

\* the quantities and the prices (mills) of the commission runs
CommissionQuantities == (1..8) \cup {100, 200, 201, 300}
CommissionPrices == {500, 20000, 148000, 150000, 300000}

CommissionInit ==
    /\ InitPortfolio(0)
    /\ InitOrderManager
    /\ InitRiskManager
    /\ InitEngine
    /\ InitWeb
    /\ \E quantity \in CommissionQuantities, price \in CommissionPrices :
          call = [op |-> "commission_arguments", quantity |-> quantity, price |-> price]
    /\ in_c1_domain = TRUE

\* _calculate_commission(quantity, price)
CommissionCalculate ==
    /\ call.op = "commission_arguments"
    /\ call' = [op |-> "_calculate_commission", quantity |-> call.quantity,
                price |-> call.price,
                commission |-> OrderManager_calculate_commission(call.quantity, call.price)]
    /\ UNCHANGED <<pfVars, omVars, rmVars, engVars, webVars, in_c1_domain>>

CommissionNext == CommissionCalculate

SpecCommission == CommissionInit /\ [][CommissionNext]_vars

----------------------------------------------------------------------------
(* C1: starting from initialize(c), c >= 0, after every sequence of
   update_position calls with quantity >= 1 and price > 0, the cash balance
   is never negative. *)
C1_CashNeverNegative ==
    in_c1_domain => cash_balance >= 0

(* C2: every entry of Portfolio.positions has quantity > 0; a symbol whose
   quantity is 0 is absent from the map. *)
C2_PositionsPositive ==
    \A s \in DOMAIN positions : positions[s].quantity > 0

\* the task positions inside execute_trade, from the risk check to the end
\* of update_position
Section == {"risk", "order", "ledger"}

\* the ledger after the decision of task m alone, applied to the ledger of the
\* start of the cycle
Alone(m) ==
    Engine_execute_trade(tasks[m].requested, tasks[m].quote, cycle_start,
                         initial_capital, volatility_data, correlation_matrix)

\* the cash the decision of task m alone takes from the ledger of the start
\* of the cycle
AloneCost(m) == cycle_start.cash_balance - Alone(m).cash_balance

\* the trade records of the current cycle
NewRecords ==
    SubSeq(trade_history, Len(cycle_start.trade_history) + 1, Len(trade_history))

\* every decision of the current cycle is a buy
BuyOnlyCycle ==
    /\ cycle >= 1
    /\ \A m \in Models : tasks[m].requested # NoDecision => tasks[m].requested.action = "buy"

\* the cycle has ended; both tasks called execute_trade with buys of the same
\* symbol, each affordable alone, not affordable together
TwoBuysCase ==
    /\ AllDone
    /\ Len(arrival) = 2
    /\ \A m \in Models : tasks[m].requested.action = "buy"
    /\ tasks[arrival[1]].requested.symbol = tasks[arrival[2]].requested.symbol
    /\ \A m \in Models : AloneCost(m) > 0
    /\ AloneCost(arrival[1]) + AloneCost(arrival[2]) > cycle_start.cash_balance

(* C3: of two execute_trade tasks of one cycle that buy the same symbol, each
   affordable alone but not together, the first in arrival order is executed
   and debited in full and the second is rejected or shrunk to what the
   remaining cash affords; the cash debited in a cycle of buys never exceeds
   the cash available before it, and cash_balance is never negative. *)
C3_NoDoubleSpend ==
    /\ BuyOnlyCycle =>
          /\ cash_balance >= 0
          /\ cash_balance <= cycle_start.cash_balance
    /\ TwoBuysCase =>
          /\ tasks[arrival[1]].outcome = "applied"
          /\ NewRecords # <<>>
          /\ NewRecords[1] = Alone(arrival[1]).trade_history[Len(cycle_start.trade_history) + 1]
          /\ \/ /\ tasks[arrival[2]].outcome \in {"risk_rejected", "order_failed", "ledger_raised"}
                /\ ThePortfolio = Alone(arrival[1])
             \/ /\ tasks[arrival[2]].outcome = "applied"
                /\ Len(NewRecords) = 2
                /\ NewRecords[2].quantity
                      < Alone(arrival[2]).trade_history[Len(cycle_start.trade_history) + 1].quantity
                /\ cycle_start.cash_balance - cash_balance <= cycle_start.cash_balance

\* both buys ran; the first was applied and the ledger refused the second
C3_Witness ==
    /\ TwoBuysCase
    /\ tasks[arrival[1]].outcome = "applied"
    /\ tasks[arrival[2]].outcome = "ledger_raised"
    /\ cash_balance < AloneCost(arrival[2])

(* C4: when the execute_trade tasks of a cycle have all ended, the ledger
   (cash_balance, positions, trade history) equals the ledger obtained by
   applying the same decisions one after the other in arrival order to the
   ledger of the start of the cycle, whatever the interleaving of the tasks. *)
C4_Serializable ==
    (cycle >= 1 /\ AllDone) =>
        ThePortfolio = ApplyInOrder(arrival, tasks, cycle_start, initial_capital,
                                    volatility_data, correlation_matrix)

\* two tasks changed the ledger, and the opposite order of their decisions
\* would have given another ledger
C4_Witness ==
    /\ AllDone
    /\ Len(arrival) = 2
    /\ \A m \in Models : tasks[m].outcome = "applied"
    /\ ThePortfolio # ApplyInOrder(<<arrival[2], arrival[1]>>, tasks, cycle_start,
                                   initial_capital, volatility_data, correlation_matrix)

(* C5: at no time are two execute_trade invocations both between the start
   of the risk check and the end of Portfolio.update_position. *)
C5_SingleWriter ==
    Cardinality({m \in Models : tasks[m].pc \in Section}) <= 1

\* one task is after place_order and before update_position while the
\* decision of another task has arrived and that task is ready to run
C5_Witness ==
    \E m \in Models, n \in Models :
        /\ m # n
        /\ tasks[m].pc = "ledger"
        /\ tasks[n].st = "ready"
        /\ tasks[n].pc = "decide"
        /\ tasks[n].io_done
        /\ tasks[n].requested # NoDecision

(* C6: every (cash_balance, positions_value, total_value) that get_status
   returns on the web-server thread while update_position runs is the triple
   of a ledger state before or after a whole fill, never that of the state
   between the cash statement and the position statement of a fill. *)
C6_StatusAtFillBoundary ==
    reader.pc = "returned" =>
        <<reader.cash_balance, reader.positions_value, reader.total_value>> \in boundary

\* sum of the quantities of the fills recorded for order i
RECURSIVE FilledSum(_, _)
FilledSum(fs, i) ==
    IF fs = <<>> THEN 0
    ELSE (IF Head(fs).order_id = i THEN Head(fs).quantity ELSE 0) + FilledSum(Tail(fs), i)

\* the edges of the order transition graph of the design
TransitionGraph ==
    {<<"pending", "submitted">>, <<"submitted", "filled">>,
     <<"submitted", "partially_filled">>, <<"submitted", "cancelled">>,
     <<"submitted", "rejected">>, <<"submitted", "expired">>,
     <<"partially_filled", "filled">>}

(* C7: once an order's status is FILLED, CANCELLED, REJECTED or EXPIRED, no
   operation of OrderManager changes that order's status again. *)
C7_TerminalIsFinal ==
    [][\A i \in 1..Len(orders) :
          orders[i].status \in Terminal => orders'[i].status = orders[i].status]_vars

\* cancel_order was called on a FILLED order and refused
C7_Witness ==
    /\ call.op = "cancel_order"
    /\ call.order_id \in 1..Len(orders)
    /\ orders[call.order_id].status = "filled"
    /\ call.returned = FALSE

(* C8: every status change of an order is an edge of the order transition
   graph; FILLED, REJECTED and CANCELLED are reached only from SUBMITTED. *)
C8_OnlyGraphEdges ==
    [][\A i \in 1..Len(orders) :
          orders'[i].status # orders[i].status
            => <<orders[i].status, orders'[i].status>> \in TransitionGraph]_vars

(* C9: for every order the quantities of its fills sum to at most the
   order's quantity, and to exactly quantity = filled_quantity when the
   order is FILLED. *)
C9_FillsWithinQuantity ==
    \A i \in 1..Len(orders) :
        /\ FilledSum(fills, i) <= orders[i].quantity
        /\ orders[i].status = "filled" =>
              /\ FilledSum(fills, i) = orders[i].quantity
              /\ orders[i].filled_quantity = orders[i].quantity

\* process_pending_orders ran over an order it had filled in an earlier pass
\* and over a SUBMITTED order, which it filled
C9_Witness ==
    /\ call.op = "process_pending_orders"
    /\ call.filled >= 1
    /\ \E i \in 1..Len(orders) :
          /\ orders[i].status = "filled"
          /\ orders[i].order_type = "limit"
          /\ FilledSum(fills, i) = orders[i].quantity

(* C10: for every buy that check_trade_risk approves, the returned
   adjusted_quantity satisfies adjusted_quantity * estimated_price * 1.01 <=
   cash_balance. *)
C10_ApprovedBuyAffordable ==
    (/\ call.op = "check_trade_risk"
     /\ call.result.approved
     /\ call.decision.action = "buy")
    => call.result.adjusted_quantity * EstimatedPrice(call.decision) * 101
          <= cash_balance * 100

(* C11: after every successful sell through update_position the record
   appended for the sell carries pnl = (price - avg_cost) * quantity -
   commission, with avg_cost taken before the sell, and no other record is
   changed. *)
C11_SellRecordCarriesPnl ==
    [][(/\ call'.op = "update_position"
        /\ call'.action = "sell"
        /\ call'.quantity >= 1
        /\ ~call'.raised)
       => LET n == Len(trade_history) IN
          /\ Len(trade_history') = n + 1
          /\ trade_history'[n + 1].pnl =
                (call'.price - positions[call'.symbol].avg_cost) * call'.quantity
                - trade_history'[n + 1].commission
          /\ \A i \in 1..n : trade_history'[i] = trade_history[i]]_vars

(* C12: for every fill that execute_trade applies, the commission of the
   ledger's trade record, which is the commission debited from (buy) or
   netted against (sell) ledger cash, equals the commission the order
   executor computed for that fill (TradeResult.commission). *)
C12_SingleCommission ==
    [][\A m \in Models :
          (tasks'[m].outcome = "applied" /\ tasks[m].outcome # "applied")
          => LET rec == trade_history'[Len(trade_history')]
                 amount == rec.quantity * rec.price
             IN /\ rec.commission = tasks[m].result.commission
                /\ rec.action = "buy" =>
                      cash_balance - cash_balance' = amount + tasks[m].result.commission
                /\ rec.action = "sell" =>
                      cash_balance' - cash_balance = amount - tasks[m].result.commission]_vars

(* C13: a buy through update_position fails when quantity * price +
   commission > cash_balance and only a buy in that case fails for lack of
   funds; a buy that fails leaves cash_balance, positions and trade_history
   unchanged. *)
C13_FailedBuyChangesNothing ==
    [][(call'.op = "update_position" /\ call'.action = "buy")
       => LET total_cost == call'.quantity * call'.price
                            + Portfolio_calculate_commission(call'.quantity, call'.price)
          IN /\ total_cost > cash_balance => call'.raised
             /\ call'.raised =>
                   /\ cash_balance' = cash_balance
                   /\ positions' = positions
                   /\ trade_history' = trade_history]_vars

(* C14: a sell through update_position fails when the symbol has no
   position and when quantity > position.quantity, and in no other case; a
   sell that fails leaves cash_balance, positions and trade_history, the pnl
   of its records included, unchanged. *)
C14_FailedSellChangesNothing ==
    [][(call'.op = "update_position" /\ call'.action = "sell")
       => /\ call'.raised <=>
                \/ call'.symbol \notin DOMAIN positions
                \/ positions[call'.symbol].quantity < call'.quantity
          /\ call'.raised =>
                /\ cash_balance' = cash_balance
                /\ positions' = positions
                /\ trade_history' = trade_history]_vars

\* a sell of more than the held quantity was refused, with a record in the history
C14_Witness ==
    /\ call.op = "update_position"
    /\ call.action = "sell"
    /\ call.raised
    /\ call.symbol \in DOMAIN positions
    /\ positions[call.symbol].quantity >= 1
    /\ positions[call.symbol].quantity < call.quantity
    /\ Len(trade_history) >= 1

(* C15: a successful buy debits cash_balance by exactly quantity * price +
   commission; a held position gets quantity old_qty + qty and average cost
   (old_qty * old_avg + qty * price) / (old_qty + qty), a symbol not held
   gets a position with that quantity and avg_cost = price; the positions of
   other symbols are unchanged. *)
C15_BuyEffect ==
    [][(call'.op = "update_position" /\ call'.action = "buy" /\ ~call'.raised)
       => LET s == call'.symbol
              qty == call'.quantity
              price == call'.price
          IN /\ cash_balance - cash_balance' =
                   qty * price + Portfolio_calculate_commission(qty, price)
             /\ DOMAIN positions' = DOMAIN positions \cup {s}
             /\ s \in DOMAIN positions =>
                   /\ positions'[s].quantity = positions[s].quantity + qty
                   /\ positions'[s].avg_cost =
                         (positions[s].quantity * positions[s].avg_cost + qty * price)
                            \div (positions[s].quantity + qty)
             /\ s \notin DOMAIN positions =>
                   /\ positions'[s].quantity = qty
                   /\ positions'[s].avg_cost = price
             /\ \A o \in DOMAIN positions \ {s} : positions'[o] = positions[o]]_vars

\* a buy added to a held position at another price than its average cost
C15_Witness ==
    /\ call.op = "update_position"
    /\ call.action = "buy"
    /\ ~call.raised
    /\ call.quantity >= 1
    /\ call.symbol \in DOMAIN positions
    /\ positions[call.symbol].quantity > call.quantity
    /\ positions[call.symbol].avg_cost \notin LedgerPrices

(* C16: a successful sell credits cash_balance by exactly quantity * price -
   commission, decreases the position's quantity by quantity and leaves its
   average cost unchanged, removes the position entry when the quantity
   reaches 0, and leaves the positions of other symbols unchanged. *)
C16_SellEffect ==
    [][(call'.op = "update_position" /\ call'.action = "sell" /\ ~call'.raised)
       => LET s == call'.symbol
              qty == call'.quantity
              price == call'.price
          IN /\ cash_balance' - cash_balance =
                   qty * price - Portfolio_calculate_commission(qty, price)
             /\ IF positions[s].quantity - qty = 0
                THEN DOMAIN positions' = DOMAIN positions \ {s}
                ELSE /\ DOMAIN positions' = DOMAIN positions
                     /\ positions'[s].quantity = positions[s].quantity - qty
                     /\ positions'[s].avg_cost = positions[s].avg_cost
             /\ \A o \in DOMAIN positions \ {s} : positions'[o] = positions[o]]_vars

\* a sell of a whole position removed its entry and left the position of
\* another symbol in place
C16_Witness ==
    /\ call.op = "update_position"
    /\ call.action = "sell"
    /\ ~call.raised
    /\ call.quantity >= 1
    /\ call.symbol \notin DOMAIN positions
    /\ \E o \in DOMAIN positions : positions[o].quantity >= 1

(* C17: buying q >= 1 units of a symbol not held, when affordable, and then
   selling the same q units at the same price p returns cash_balance to
   initial - 2 * commission(q, p), with commission the order-path formula
   (OrderManager._calculate_commission), and leaves no position for the
   symbol. *)
C17_RoundTripConservation ==
    (call.op = "round_trip_sell" /\ ~call.raised)
    => /\ cash_balance = initial_capital
                         - 2 * OrderManager_calculate_commission(call.quantity, call.price)
       /\ call.symbol \notin DOMAIN positions

(* C18: for every buy that check_trade_risk approves, the post-trade weight
   (held quantity + adjusted_quantity) * estimated_price / total_value does
   not exceed MAX_POSITION_SIZE (10%): a buy above the cap is shrunk to the
   cap and a buy of a symbol already above the cap is rejected. *)
C18_ApprovedBuyWithinCap ==
    (/\ call.op = "check_trade_risk"
     /\ call.result.approved
     /\ call.decision.action = "buy")
    => LET held == IF call.decision.symbol \in DOMAIN positions
                   THEN positions[call.decision.symbol].quantity ELSE 0
       IN (held + call.result.adjusted_quantity) * EstimatedPrice(call.decision) * 10
             <= Portfolio_get_status(ThePortfolio).total_value

\* the day's loss: the negative of today's realized P&L plus the unrealized
\* P&L when that is negative
DailyLoss ==
    -(SumPnl(trade_history)
      + (IF UnrealizedPnl(positions) < 0 THEN UnrealizedPnl(positions) ELSE 0))

(* C19: check_trade_risk rejects a decision for the daily loss limit exactly
   when the day's loss exceeds initial_capital * 5%: a loss above the limit
   is never approved, and a day whose combined P&L is a gain is never
   rejected by this check. *)
C19_DailyLossOnlyForLosses ==
    call.op = "check_trade_risk"
    => /\ DailyLoss * 20 > initial_capital => ~call.result.approved
       /\ call.result.reason = "daily_loss" => DailyLoss * 20 > initial_capital

\* the quantity the checks before the scaling leave for a decision: the
\* smaller of what the cash check and the position check allow
QuantityLeft(decision, pf) ==
    Min(RiskManager_check_cash_availability(decision, pf).adjusted_quantity,
        RiskManager_check_position_limits(decision, pf).adjusted_quantity)

(* C20: for every approved verdict with accumulated risk score r the
   adjusted_quantity is max(1, floor(q * max(0.5, 1 - r))), q being the
   quantity left by the preceding checks, for every r > 0. *)
C20_ScaledForEveryScore ==
    (call.op = "check_trade_risk" /\ call.result.approved)
    => call.result.adjusted_quantity =
          Max(1, Trunc(QuantityLeft(call.decision, ThePortfolio)
                         * Max(5, 10 - call.result.risk_score), 10))

(* C21: orders left SUBMITTED by earlier cycles are re-evaluated in every
   cycle: a SUBMITTED limit order whose limit is crossed by the quote at the
   start of a cycle is FILLED by the end of that cycle. *)
C21_SubmittedFilledByCycleEnd ==
    (cycle >= 2 /\ AllDone)
    => \A i \in 1..Len(orders) :
          (/\ i \notin {tasks[m].order_id : m \in Models}
           /\ cycle_quotes[orders[i].symbol] # NoPrice
           /\ LimitCrossed(orders[i], cycle_quotes[orders[i].symbol]))
          => orders[i].status # "submitted"

(* C22: every trading cycle eventually completes, even if the call of some
   decision producer never returns: once a cycle has started, a state is
   reached in which every task of the cycle is done. *)
C22_CycleCompletes == (cycle >= 1 /\ ~AllDone) ~> AllDone

\* the outcomes of a task whose decision failed inside execute_trade
FailedOutcomes == {"risk_rejected", "order_failed", "ledger_raised"}

\* the ledger holds a record of this cycle for the fill of task m
AppliedRecord(m) ==
    \E i \in 1..Len(NewRecords) :
        /\ NewRecords[i].symbol = tasks[m].decision.symbol
        /\ NewRecords[i].action = tasks[m].decision.action
        /\ NewRecords[i].quantity = tasks[m].result.executed_quantity
        /\ NewRecords[i].price = tasks[m].result.executed_price

(* C23: a failure while processing one decision never aborts the cycle: no
   exception leaves execute_trade, a risk rejection, an unavailable quote and
   a ledger rejection end with a TradeResult of success = False, and whatever
   happened to the other tasks of the cycle (a producer that raised, a
   failed decision), every decision a producer returned is taken through
   execute_trade and every successful one is on the ledger. *)
C23_FailuresDoNotAbort ==
    /\ \A m \in Models :
          tasks[m].st = "done"
          => /\ ~tasks[m].escaped
             /\ tasks[m].outcome \in FailedOutcomes => ~tasks[m].result.success
             /\ tasks[m].outcome = "applied"
                => tasks[m].result.success /\ AppliedRecord(m)
    /\ (cycle >= 1 /\ AllDone)
       => \A m \in Models :
             tasks[m].requested # NoDecision
             => tasks[m].outcome \in FailedOutcomes \cup {"applied"}

\* one producer raised, the other's decision is on the ledger
C23_Witness ==
    /\ AllDone
    /\ \E m1, m2 \in Models :
          /\ tasks[m1].outcome = "producer_raised"
          /\ tasks[m2].outcome = "applied"
          /\ AppliedRecord(m2)

\* the ledger rejected a fill and execute_trade returned a failed result
C23_WitnessLedger ==
    \E m \in Models :
        /\ tasks[m].outcome = "ledger_raised"
        /\ ~tasks[m].result.success
        /\ ~tasks[m].escaped

\* the fills recorded for order order_id
FillsOf(order_id) == {i \in 1..Len(fills) : fills[i].order_id = order_id}

(* C24: a decision with no limit price becomes a market order; when a quote
   is available place_order leaves it FILLED with filled_quantity = quantity
   and exactly one fill of that quantity, priced quote*1.001 for a buy and
   quote*0.999 for a sell; with no quote it is REJECTED and has no fill. *)
C24_MarketOrderFillsAtOnce ==
    (call.op = "place_order" /\ orders[call.order_id].price = NoPrice)
    => LET order == orders[call.order_id] IN
       /\ order.order_type = "market"
       /\ IF call.quote # NoPrice
          THEN /\ order.status = "filled"
               /\ order.filled_quantity = order.quantity
               /\ Cardinality(FillsOf(call.order_id)) = 1
               /\ \A i \in FillsOf(call.order_id) :
                     /\ fills[i].quantity = order.quantity
                     /\ fills[i].price * 1000 =
                           call.quote * (IF order.action = "buy" THEN 1001 ELSE 999)
          ELSE /\ order.status = "rejected"
               /\ FillsOf(call.order_id) = {}

\* a market order was rejected for want of a quote after another was filled
C24_Witness ==
    /\ call.op = "place_order"
    /\ orders[call.order_id].price = NoPrice
    /\ call.quote = NoPrice
    /\ \E i \in 1..Len(orders) :
          /\ orders[i].price = NoPrice
          /\ orders[i].status = "filled"
          /\ FillsOf(i) # {}

\* the quote crosses the limit of an order
QuoteCrosses(order, quote) ==
    IF order.action = "buy" THEN quote <= order.price ELSE quote >= order.price

\* order i (before the step) is filled completely at its limit price by the
\* step, with one more fill
FilledAtLimit(i) ==
    /\ orders'[i].status = "filled"
    /\ orders'[i].filled_quantity = orders[i].quantity
    /\ orders'[i].avg_fill_price = orders[i].price
    /\ \E k \in (Len(fills) + 1)..Len(fills') :
          /\ fills'[k].order_id = i
          /\ fills'[k].quantity = orders[i].quantity
          /\ fills'[k].price = orders[i].price
          /\ \A j \in 1..Len(fills') : fills'[j].order_id = i => j = k

\* the step is a pass of process_pending_orders: the last call is one, and
\* the step is neither the expiry of a cache entry nor a change of the
\* quote lookup
PendingPass ==
    /\ call'.op = "process_pending_orders"
    /\ quote_down' = quote_down
    /\ \A s \in Symbols :
          market_data_cache[s] # NoPrice => market_data_cache'[s] = market_data_cache[s]

(* C25: a limit order fills completely at its limit price exactly when the
   current quote crosses it (quote <= limit for a buy, quote >= limit for a
   sell), when it is placed and when process_pending_orders re-evaluates it;
   otherwise it becomes (stays) SUBMITTED with no fill and filled_quantity 0,
   and stays among the orders process_pending_orders looks at. *)
C25_LimitOrderFill ==
    [][ /\ (placing # 0 /\ placing' = 0 /\ call'.op = "place_order"
            /\ orders[placing].order_type = "limit" /\ call'.quote # NoPrice)
           => IF QuoteCrosses(orders[placing], call'.quote)
              THEN FilledAtLimit(placing)
              ELSE /\ orders'[placing].status = "submitted"
                   /\ orders'[placing].filled_quantity = 0
                   /\ fills' = fills
                   /\ placing \in OrderManager_pending_orders(orders')
        /\ PendingPass
           => \A i \in 1..Len(orders) :
                 (orders[i].status = "submitted" /\ orders[i].order_type = "limit")
                 => LET quote == market_data_cache'[orders[i].symbol] IN
                    IF quote # NoPrice /\ QuoteCrosses(orders[i], quote)
                    THEN FilledAtLimit(i)
                    ELSE /\ orders'[i] = orders[i]
                         /\ FillsOf(i) = {}
                         /\ \A k \in 1..Len(fills') : fills'[k].order_id # i
                         /\ i \in OrderManager_pending_orders(orders')
      ]_vars

\* a limit order that was left SUBMITTED when placed has been filled at its
\* limit price by process_pending_orders
C25_Witness ==
    /\ call.op = "process_pending_orders"
    /\ call.filled >= 1
    /\ \E i \in 1..Len(orders) :
          /\ orders[i].order_type = "limit"
          /\ orders[i].status = "filled"
          /\ orders[i].avg_fill_price = orders[i].price
    /\ \E i \in 1..Len(orders) :
          /\ orders[i].order_type = "limit"
          /\ orders[i].status = "submitted"

(* C26: for every quantity q >= 1 and price p > 0,
   _calculate_commission(q, p) = min(max(q*0.005, 1.0), q*p*0.005) rounded
   to cents (here: micro-dollars rounded to mills), and so never exceeds 0.5%
   of the trade value q*p. *)
C26_CommissionIsClamp ==
    call.op = "_calculate_commission"
    => /\ call.commission =
             RoundToCents(Min(Max(call.quantity * 5000, 1000000),
                              call.quantity * call.price * 5))
       /\ call.commission * 1000 <= call.quantity * call.price * 5

(* C27: check_trade_risk never mutates state: the portfolio's cash_balance,
   positions and trade_history, the fields of the decision and the order
   store are the same after the call as before, whatever the verdict. *)
C27_RiskCheckReadsOnly ==
    [][ call'.op = "check_trade_risk"
        => /\ cash_balance' = cash_balance
           /\ positions' = positions
           /\ trade_history' = trade_history
           /\ orders' = orders
           /\ fills' = fills
           /\ call'.decision_after = call'.decision ]_vars

\* a call whose verdict shrank the quantity, on a ledger with a position
C27_Witness ==
    /\ call.op = "check_trade_risk"
    /\ call.result.approved
    /\ call.result.adjusted_quantity < call.decision.quantity
    /\ call.decision_after = call.decision
    /\ positions # <<>>

\* a call whose verdict was a rejection
C27_WitnessRejected ==
    /\ call.op = "check_trade_risk"
    /\ ~call.result.approved
    /\ call.decision_after = call.decision

(* C28: a Decision is immutable once created: execute_trade leaves every
   field of the decision object it was given unchanged, also when the risk
   gate adjusts the quantity. *)
C28_DecisionUnchanged ==
    \A m \in Models : tasks[m].decision = tasks[m].requested

\* total_value as get_status reports it for the current ledger
ReportedTotal == Portfolio_get_status(ThePortfolio).total_value

(* C29: get_status always reports total_value = cash_balance + the sum over
   the held positions of quantity * current_price; right after initialize(c)
   and before any fill it reports total_value = cash_balance = c with no
   positions; and a successful buy changes the reported total_value. *)
C29_TotalValueReported ==
    /\ [](/\ ~Portfolio_get_status_raises(initial_capital)
          /\ ReportedTotal =
                cash_balance
                + SumOver(DOMAIN positions,
                          [s \in DOMAIN positions |->
                              positions[s].quantity * positions[s].current_price])
          /\ trade_history = <<>>
             => /\ DOMAIN positions = {}
                /\ ReportedTotal = cash_balance
                /\ cash_balance = initial_capital)
    /\ [][ (call'.op = "update_position" /\ ~call'.raised
            /\ Len(trade_history') = Len(trade_history) + 1)
           => ReportedTotal' # ReportedTotal ]_vars

\* the fills and the ledger records with a given symbol, quantity and price
FillsLike(f) ==
    {i \in 1..Len(fills) : /\ fills[i].symbol = f.symbol
                           /\ fills[i].quantity = f.quantity
                           /\ fills[i].price = f.price}
RecordsLike(f) ==
    {j \in 1..Len(trade_history) : /\ trade_history[j].symbol = f.symbol
                                   /\ trade_history[j].quantity = f.quantity
                                   /\ trade_history[j].price = f.price}

(* C30: order store and ledger stay consistent: whenever no execute_trade
   is between its fill and its ledger update, every Fill (and so every
   FILLED order) corresponds to exactly one ledger record with the same
   symbol, quantity and price: there are as many such records as such
   fills. *)
C30_FillsMatchLedger ==
    (\A m \in Models : tasks[m].pc # "ledger")
    => /\ \A i \in 1..Len(fills) :
             Cardinality(RecordsLike(fills[i])) = Cardinality(FillsLike(fills[i]))
       /\ \A i \in 1..Len(orders) :
             orders[i].status = "filled" => FillsOf(i) # {}

(* C31: through execute_trade the quantity of the order that is placed
   never exceeds the quantity the decision requested: for every approved
   verdict, adjusted_quantity <= the requested quantity, for every requested
   quantity >= 0. *)
C31_NeverMoreThanRequested ==
    (call.op = "check_trade_risk" /\ call.result.approved /\ call.decision.quantity >= 0)
    => call.result.adjusted_quantity <= call.decision.quantity

(* C32: a decision whose action is hold has no effect: as long as every
   decision given to execute_trade was a hold, there is no order, no fill and
   no trade record, and cash_balance and positions are as initialized. *)
C32_HoldHasNoEffect ==
    (\A m \in Models :
        tasks[m].requested # NoDecision => tasks[m].requested.action = "hold")
    => /\ orders = <<>>
       /\ fills = <<>>
       /\ trade_history = <<>>
       /\ cash_balance = initial_capital
       /\ DOMAIN positions = {}

\* realized_pnl as get_status reports it for the current ledger
ReportedRealized == Portfolio_get_status(ThePortfolio).realized_pnl

(* C33: after any sequence of successful and failing buys and sells from an
   initialized empty ledger, the realized_pnl of get_status equals the sum
   over the successful sells of (price - avg_cost) * quantity - commission:
   it is 0 on the empty history, every successful sell adds exactly its own
   realized P&L to it, and no other call changes it. *)
C33_RealizedPnlIsSumOfSells ==
    /\ [](trade_history = <<>> => ReportedRealized = 0)
    /\ [][ call'.op = "update_position"
           => IF call'.action = "sell" /\ ~call'.raised
              THEN ReportedRealized' =
                      ReportedRealized
                      + (call'.price - positions[call'.symbol].avg_cost) * call'.quantity
                      - Portfolio_calculate_commission(call'.quantity, call'.price)
              ELSE ReportedRealized' = ReportedRealized ]_vars

\* two successful sells are in the history and the reported realized P&L is
\* not zero
C33_Witness ==
    /\ call.op = "update_position"
    /\ call.action = "sell"
    /\ ~call.raised
    /\ \E i, j \in 1..Len(trade_history) :
          /\ i < j
          /\ trade_history[i].action = "sell"
          /\ trade_history[j].action = "sell"
    /\ ReportedRealized # 0

(* C34: the trade history is append-only: an update_position call that
   succeeds appends exactly one record, a call that raises appends none, and
   no call removes, reorders or modifies a record already in the history. *)
C34_HistoryAppendOnly ==
    [][ call'.op = "update_position"
        => /\ Len(trade_history') =
                 Len(trade_history) + (IF call'.raised THEN 0 ELSE 1)
           /\ SubSeq(trade_history', 1, Len(trade_history)) = trade_history ]_vars

(* C35: get_fills is a pure read: for every symbol filter and limit a call
   leaves the fill store, its contents and their order, unchanged, so the
   store stays in append order (oldest first) after any number of reads. *)
C35_GetFillsReadsOnly ==
    /\ [](\A i, j \in 1..Len(fills) : i < j => fills[i].timestamp < fills[j].timestamp)
    /\ [][ call'.op = "get_fills" => fills' = fills ]_vars

(* C36: get_positions returns a snapshot: fills applied after the call do
   not change what the returned result shows (its symbols and the quantity,
   average cost and current price of its positions), and changes made to
   the result do not change the ledger. *)
C36_PositionsSnapshot ==
    /\ []((reader.pc = "holding" /\ ~reader.written) => reader.result = reader.taken)
    /\ [][ call'.op = "write_result" => positions' = positions ]_vars

(* C37: when execute_trade handles a limit-price decision whose limit is
   not crossed by the quote, the order ends SUBMITTED with no fill, and the
   ledger is left unchanged: place_order and the ledger step that follows it
   leave cash_balance, positions and trade_history as they were. *)
C37_UncrossedLimitLeavesLedger ==
    [][ \A m \in Models :
          /\ (/\ tasks[m].pc = "order"
              /\ tasks'[m].pc # "order"
              /\ tasks[m].decision.price # NoPrice
              /\ tasks'[m].quote # NoPrice
              /\ ~LimitCrossed(tasks[m].decision, tasks'[m].quote))
             => /\ Len(orders') = Len(orders) + 1
                /\ orders'[Len(orders')].status = "submitted"
                /\ orders'[Len(orders')].filled_quantity = 0
                /\ fills' = fills
                /\ ThePortfolio' = ThePortfolio
          /\ (/\ tasks[m].pc = "ledger"
              /\ tasks'[m].pc # "ledger"
              /\ orders[tasks[m].order_id].status = "submitted")
             => /\ orders' = orders
                /\ fills' = fills
                /\ ThePortfolio' = ThePortfolio ]_vars

(* C38: shutdown cancels all pending orders: after shutdown returns, no
   order is left in a status that get_order_statistics counts as pending
   (PENDING or SUBMITTED); every order that was in one is CANCELLED. *)
C38_ShutdownCancelsPending ==
    /\ [](call.op = "shutdown"
            => \A i \in 1..Len(orders) :
                  orders[i].status \notin {"pending", "submitted"})
    /\ [][ (/\ call'.op = "shutdown"
            /\ market_data_cache' = market_data_cache
            /\ quote_down' = quote_down)
           => \A i \in 1..Len(orders) :
                 orders[i].status \in {"pending", "submitted"}
                   => orders'[i].status = "cancelled" ]_vars

(* C39: cancel_order returns False and changes nothing (no order's status,
   filled quantity or update time, and no fill) when the order id is unknown
   or the order is already FILLED, CANCELLED or REJECTED; otherwise it
   returns True, the order's status becomes CANCELLED, and its fills and
   filled_quantity are unchanged. *)
C39_CancelOrder ==
    [][ (/\ call'.op = "cancel_order"
         /\ market_data_cache' = market_data_cache
         /\ quote_down' = quote_down)
        => LET order_id == call'.order_id IN
           IF \/ order_id \notin 1..Len(orders)
              \/ orders[order_id].status \in {"filled", "cancelled", "rejected"}
           THEN /\ call'.returned = FALSE
                /\ Len(orders') = Len(orders)
                /\ \A i \in 1..Len(orders) :
                      /\ orders'[i].status = orders[i].status
                      /\ orders'[i].filled_quantity = orders[i].filled_quantity
                      /\ orders'[i].updated_at = orders[i].updated_at
                /\ fills' = fills
           ELSE /\ call'.returned = TRUE
                /\ orders'[order_id].status = "cancelled"
                /\ orders'[order_id].filled_quantity = orders[order_id].filled_quantity
                /\ fills' = fills ]_vars

\* cancel_order returned True on a SUBMITTED order
C39_WitnessCancelled ==
    /\ call.op = "cancel_order"
    /\ call.returned = TRUE
    /\ orders[call.order_id].status = "cancelled"
    /\ \E i \in 1..Len(orders) : i # call.order_id /\ orders[i].status = "filled"

\* cancel_order returned False on a CANCELLED order, with an update time from
\* the earlier cancel
C39_WitnessRefused ==
    /\ call.op = "cancel_order"
    /\ call.returned = FALSE
    /\ call.order_id \in 1..Len(orders)
    /\ orders[call.order_id].status = "cancelled"
    /\ orders[call.order_id].updated_at = 1

\* cancel_order returned False for an id that is not stored
C39_WitnessUnknown ==
    /\ call.op = "cancel_order"
    /\ call.returned = FALSE
    /\ call.order_id \notin 1..Len(orders)
    /\ orders # <<>>

=============================================================================
